---- MODULE Spec2Model ----
(***************************************************************************)
(* A model of mailur's remote synchronisation engine (src/mailur/remote.py)*)
(* : the fetcher (fetch, fetch_folder, fetch_imap, fetch_gmail), the Gmail *)
(* flag reconciler (sync_gmail) and the sync() cycle, run by a small set   *)
(* of processes against one remote account and one local store.           *)
(***************************************************************************)
EXTENDS Integers, Sequences, FiniteSets, TLC

(***************************************************************************)
(* Bounds of the model.                                                    *)
(***************************************************************************)
\* messages that arrive on the remote in one behaviour
MaxDeliver == 2
\* size of one sub-batch of imap.Uids (the code's default is 1000)
BatchSize == 1
MaxUserOps == 2
MaxFail == 1
MaxRebuild == 1

\* the message bodies a generic remote delivers: two arrivals can carry
\* the same bytes
Bodies == {1, 2}

None == 0
Procs == {1, 2}

All == "\\All"
Inbox == "\\Inbox"
Sent == "\\Sent"
Junk == "\\Junk"
Trash == "\\Trash"
Tags == {All, Inbox, Sent, Junk, Trash}

VARIABLES
    gmail,            \* account.get('gmail'): imap_host is imap.gmail.com
    r_uidvalidity,    \* remote: UIDVALIDITY of each folder
    r_uidnext,        \* remote: UIDNEXT of each folder
    r_msgs,           \* remote: folder -> (uid -> message) of the messages in it
    r_highestmodseq,  \* remote: HIGHESTMODSEQ of each folder
    g_labels,         \* Gmail: X-GM-LABELS of each message
    g_flags,          \* Gmail: FLAGS of each message
    g_modseq,         \* Gmail: MODSEQ of each message in the folder it lives in
    src,              \* local SRC mailbox: the sequence of appended rows
    src_flags,        \* local: the flags of each row
    src_modseq,       \* local: the MODSEQ of each row
    l_highestmodseq,  \* local: HIGHESTMODSEQ
    parsed,           \* local: the rows of SRC that local.parse() has parsed
    data_uidnext,     \* setting remote/uidnext: key -> <<uidvalidity, uidnext>>
    data_modseq,      \* setting remote/modseq: key -> modseq
    lock,             \* holder of the user's 'remote-fetch' lock, or None
    pc,               \* where each process is
    op,               \* the entry point each process runs: fetch, sync, send
    todo,             \* fetch(): the folders still to fetch
    ff,               \* the locals of each process's fetch_folder call
    sg,               \* the locals of each process's sync_gmail call
    last,             \* how each process's last entry point ended
    crashed,          \* history: fetch_folder of the folder raised after an append
    contended,        \* history: the process's sync() cycle caught lock.Error
    userops,          \* flag and label changes made by the user so far
    failures,         \* sync_gmail calls that raised so far
    conn,             \* each process's fetch_folder connection: open now, left open before
    setting_got,      \* the remote/modseq map each process got from data_modseq.get()
    query,            \* web: the search query given to parse_query, as its tokens
    result            \* web: what parse_query returned or raised

remoteVars == <<r_uidvalidity, r_uidnext, r_msgs, r_highestmodseq, g_labels, g_flags, g_modseq>>
localVars == <<src, src_flags, src_modseq, l_highestmodseq>>
settingVars == <<data_uidnext, data_modseq>>
histVars == <<crashed, contended>>
webVars == <<query, result>>
counters == <<userops, failures, conn, setting_got, webVars>>

vars == <<gmail, remoteVars, localVars, parsed, settingVars, lock,
          pc, op, todo, ff, sg, last, histVars, counters>>

(***************************************************************************)
(* Helpers.                                                                *)
(***************************************************************************)
Max(S) == CHOOSE x \in S : \A y \in S : y <= x
Min(S) == CHOOSE x \in S : \A y \in S : x <= y

RECURSIVE SortedSeq(_)
SortedSeq(S) ==
    IF S = {} THEN <<>> ELSE <<Min(S)>> \o SortedSeq(S \ {Min(S)})

FRange(f) == {f[x] : x \in DOMAIN f}

\* hashlib.sha256(raw).hexdigest(): a digest of the bytes, not the bytes
Sha256(raw) == <<"sha256", raw>>

\* the bytes of a remote message, as a sequence of lines
Body(mid) == <<<<"bytes", mid>>>>

\* '\r\n'.join(headers + ['']).encode(): one line per header, in the order
\* of the list
HeaderBlock(names, hdr) == [i \in 1..Len(names) |-> <<names[i], hdr[names[i]]>>]

ImapHost == IF gmail THEN "imap.gmail.com" ELSE "imap.example.com"
Username == "user"
Local == "\\Local"

NoFetchFolder ==
    [tag |-> None, uidvalidity |-> None, uidnext |-> None,
     folder |-> [uidnext |-> None, uidval |-> None],
     uids |-> {}, batches |-> <<>>]

\* data_uidnext.key(key, (None, None))
SavedUidnext(tag) == data_uidnext[tag]

\* data_uidnext(key, value), data_modseq(key, value): read the setting, set
\* one key, write it back
DataSet(setting, key, value) == [setting EXCEPT ![key] = value]

\* con.search('UID n:*'): the UIDs >= n, and always the highest UID of a
\* folder that is not empty ("n:*" is the range between n and the highest)
Search(tag, n) ==
    LET uids == DOMAIN r_msgs[tag]
    IN  IF uids = {} THEN {} ELSE {u \in uids : u >= n} \cup {Max(uids)}

\* imap.Uids(uids, **opts): the UIDs in sub-batches of BatchSize
RECURSIVE Chunks(_)
Chunks(s) ==
    IF Len(s) <= BatchSize THEN <<s>>
    ELSE <<SubSeq(s, 1, BatchSize)>> \o Chunks(SubSeq(s, BatchSize + 1, Len(s)))

UidsBatches(uids) ==
    LET chunks == Chunks(SortedSeq(uids))
    IN  [b \in 1..Len(chunks) |->
            [uids |-> chunks[b], st |-> "new", exists |-> {}, msgs |-> <<>>]]

\* get_folders()
GetFolders ==
    IF gmail THEN <<All, Junk, Trash>>
    ELSE IF All \in DOMAIN r_msgs THEN <<All>>
    ELSE IF Sent \in DOMAIN r_msgs THEN <<Inbox, Sent>>
    ELSE <<Inbox>>

\* fetch_imap: map_tags
ImapTagFlags(tag) ==
    CASE tag = Inbox -> {"#inbox"}
      [] tag = Junk -> {"#spam"}
      [] tag = Trash -> {"#trash"}
      [] tag = Sent -> {"#sent"}
      [] OTHER -> {}

\* the values of one header over the rows of SRC that carry it
HeaderValues(name) ==
    {src[i].hdr[name] : i \in {j \in 1..Len(src) : name \in DOMAIN src[j].hdr}}

\* fetch_imap: exists, the X-SHA256 values of the rows of SRC
ExistsSha256 == HeaderValues("X-SHA256")

\* fetch_imap.msgs: one fetched message as a row to append
ImapHeaders == <<"X-SHA256", "X-Remote-Host", "X-Remote-Login">>

\* fetch_imap.msgs with the hash taken after the headers were prepended
ImapRow_hash_of_row(tag, raw) ==
    LET hdr == ("X-SHA256" :> Sha256(<<<<"X-Remote-Host", ImapHost>>>> \o raw))
                @@ ("X-Remote-Host" :> ImapHost) @@ ("X-Remote-Login" :> Username)
    IN  [hdr |-> hdr,
         raw |-> HeaderBlock(ImapHeaders, hdr) \o raw,
         flags |-> ImapTagFlags(tag)]

ImapRow(tag, raw) ==
    LET hdr == ("X-SHA256" :> Sha256(raw)) @@ ("X-Remote-Host" :> ImapHost)
                @@ ("X-Remote-Login" :> Username)
    IN  [hdr |-> hdr,
         raw |-> HeaderBlock(ImapHeaders, hdr) \o raw,
         flags |-> ImapTagFlags(tag)]

\* fetch_imap.msgs: the rows of a batch, in UID order, without the messages
\* whose hash was in SRC when `exists` was built
RECURSIVE ImapMsgs(_, _, _)
ImapMsgs(tag, uids, exists) ==
    IF uids = <<>> THEN <<>>
    ELSE LET u == Head(uids)
             rest == ImapMsgs(tag, Tail(uids), exists)
         IN  IF u \notin DOMAIN r_msgs[tag] THEN rest
             ELSE IF Sha256(Body(r_msgs[tag][u])) \in exists THEN rest
             ELSE <<ImapRow(tag, Body(r_msgs[tag][u]))>> \o rest

\* uids_by_msgid_gmail with the index built over the wrong header
uids_by_msgid_gmail_wrong_header ==
    [gid \in HeaderValues("X-GM-UID") |->
        Max({i \in 1..Len(src) : "X-GM-UID" \in DOMAIN src[i].hdr
                                 /\ src[i].hdr["X-GM-UID"] = gid})]

\* uids_by_msgid_gmail: X-GM-MSGID -> uid over the rows of SRC that carry
\* the header (a later row replaces an earlier one)
uids_by_msgid_gmail ==
    [gid \in HeaderValues("X-GM-MSGID") |->
        Max({i \in 1..Len(src) : "X-GM-MSGID" \in DOMAIN src[i].hdr
                                 /\ src[i].hdr["X-GM-MSGID"] = gid})]

\* local.get_tag(label)['id']: the id of a label that is not a Gmail one
GetTag(label) == label

\* flags_by_gmail: map_labels
MapLabel(label) ==
    CASE label = "\\Drafts" -> "\\Draft"
      [] label = "\\Draft" -> "\\Draft"
      [] label = "\\Starred" -> "\\Flagged"
      [] label = Inbox -> "#inbox"
      [] label = Junk -> "#spam"
      [] label = Trash -> "#trash"
      [] label = Sent -> "#sent"
      [] label = "\\Chats" -> "#chats"
      [] label = "\\Important" -> ""
      [] OTHER -> GetTag(label)

\* flags_by_gmail: map_flags
MapFlags == {"\\Answered", "\\Flagged", "\\Deleted", "\\Seen", "\\Draft"}

\* flags_by_gmail(tag, flags, labels): the mapped flags, the mapped labels
\* and the tag of the folder
flags_by_gmail(tag, flags, labels) ==
    ((flags \cap MapFlags)
        \cup {MapLabel(l) : l \in labels}
        \cup (IF tag = All THEN {} ELSE {MapLabel(tag)})) \ {""}

SKIP_DRAFTS_off == FALSE

SKIP_DRAFTS == TRUE

\* the keywords mailur gives to the messages of a thread: mlr/thrid/N
ThridKeywords == {"mlr/thrid/1", "mlr/thrid/2"}

\* BODY.PEEK[] of a Gmail message: a chat comes without a body
GmailRaw(msgid) == IF "\\Chats" \in g_labels[msgid] THEN <<>> ELSE Body(msgid)

GmailHeaders == <<"X-SHA256", "X-GM-UID", "X-GM-MSGID", "X-GM-THRID", "X-GM-Login">>

\* fetch_gmail.msgs: one fetched message as a row to append; a thread
\* keyword among the mapped flags is taken out of them (re.sub) and becomes
\* the header X-Thread-ID
GmailRow(tag, uid, msgid, flags) ==
    LET raw == GmailRaw(msgid)
        thrids == flags \cap ThridKeywords
        thrid == CHOOSE k \in thrids : TRUE
        base == ("X-SHA256" :> Sha256(raw)) @@ ("X-GM-UID" :> uid)
                 @@ ("X-GM-MSGID" :> msgid) @@ ("X-GM-THRID" :> msgid)
                 @@ ("X-GM-Login" :> Username)
        hdr == IF thrids = {} THEN base
               ELSE base @@ ("X-Thread-ID" :> <<thrid, "@mailur.link">>)
        names == IF thrids = {} THEN GmailHeaders ELSE GmailHeaders \o <<"X-Thread-ID">>
    IN  [hdr |-> hdr,
         raw |-> HeaderBlock(names, hdr) \o raw,
         flags |-> flags \ thrids]

\* fetch_gmail: the first pass, the UIDs of the batch whose X-GM-MSGID is
\* not in SRC
RECURSIVE GmailNewUids(_, _, _)
GmailNewUids(tag, uids, existing) ==
    IF uids = <<>> THEN <<>>
    ELSE LET u == Head(uids)
             rest == GmailNewUids(tag, Tail(uids), existing)
         IN  IF u \notin DOMAIN r_msgs[tag] THEN rest
             ELSE IF r_msgs[tag][u] \in existing THEN rest
             ELSE <<u>> \o rest

\* fetch_gmail.msgs: the rows of the fetched UIDs, without known messages
\* and drafts
RECURSIVE GmailMsgs(_, _, _)
GmailMsgs(tag, uids, existing) ==
    IF uids = <<>> THEN <<>>
    ELSE LET u == Head(uids)
             msgid == r_msgs[tag][u]
             flags == flags_by_gmail(tag, g_flags[msgid], g_labels[msgid])
             rest == GmailMsgs(tag, Tail(uids), existing)
         IN  IF GmailRaw(msgid) = <<>> \/ msgid \in existing THEN rest
             ELSE IF SKIP_DRAFTS /\ "\\Draft" \in flags THEN rest
             ELSE <<GmailRow(tag, u, msgid, flags)>> \o rest

\* multiappend putting the new rows in front of the rows of SRC
Multiappend_in_front(msgs) ==
    /\ src' = [i \in 1..Len(msgs) |-> [hdr |-> msgs[i].hdr, raw |-> msgs[i].raw]] \o src
    /\ src_flags' = [i \in 1..Len(msgs) |-> msgs[i].flags] \o src_flags
    /\ src_modseq' = [i \in 1..Len(msgs) |-> l_highestmodseq + 1] \o src_modseq
    /\ l_highestmodseq' = IF msgs = <<>> THEN l_highestmodseq ELSE l_highestmodseq + 1

\* con.multiappend(local.SRC, msgs)
Multiappend(msgs) ==
    /\ src' = src \o [i \in 1..Len(msgs) |-> [hdr |-> msgs[i].hdr, raw |-> msgs[i].raw]]
    /\ src_flags' = src_flags \o [i \in 1..Len(msgs) |-> msgs[i].flags]
    /\ src_modseq' = src_modseq \o [i \in 1..Len(msgs) |-> l_highestmodseq + 1]
    /\ l_highestmodseq' = IF msgs = <<>> THEN l_highestmodseq ELSE l_highestmodseq + 1

(***************************************************************************)
(* fetch(), fetch_folder(), fetch_imap(), fetch_gmail()                    *)
(***************************************************************************)
\* fetch(tag=...): one folder
FetchTag(p, tag) ==
    /\ pc[p] = "idle"
    /\ tag \in DOMAIN r_msgs
    /\ pc' = [pc EXCEPT ![p] = "fetch"]
    /\ op' = [op EXCEPT ![p] = "fetch"]
    /\ todo' = [todo EXCEPT ![p] = <<tag>>]
    /\ last' = [last EXCEPT ![p] = "running"]
    /\ UNCHANGED <<gmail, remoteVars, localVars, parsed, settingVars, lock, ff, sg,
                   histVars, counters>>

\* fetch(): every folder of get_folders()
FetchAll(p) ==
    /\ pc[p] = "idle"
    /\ pc' = [pc EXCEPT ![p] = "fetch"]
    /\ op' = [op EXCEPT ![p] = "fetch"]
    /\ todo' = [todo EXCEPT ![p] = GetFolders]
    /\ last' = [last EXCEPT ![p] = "running"]
    /\ UNCHANGED <<gmail, remoteVars, localVars, parsed, settingVars, lock, ff, sg,
                   histVars, counters>>

\* sync(): fetch() first
SyncStart(p) ==
    /\ pc[p] = "idle"
    /\ pc' = [pc EXCEPT ![p] = "fetch"]
    /\ op' = [op EXCEPT ![p] = "sync"]
    /\ todo' = [todo EXCEPT ![p] = GetFolders]
    /\ last' = [last EXCEPT ![p] = "running"]
    /\ contended' = [contended EXCEPT ![p] = FALSE]
    /\ UNCHANGED <<gmail, remoteVars, localVars, parsed, settingVars, lock, ff, sg,
                   crashed, counters>>

\* sync(only_flags=True): no fetch
SyncOnlyFlags(p) ==
    /\ pc[p] = "idle"
    /\ pc' = [pc EXCEPT ![p] = "sync_account"]
    /\ op' = [op EXCEPT ![p] = "sync"]
    /\ last' = [last EXCEPT ![p] = "running"]
    /\ contended' = [contended EXCEPT ![p] = FALSE]
    /\ UNCHANGED <<gmail, remoteVars, localVars, parsed, settingVars, lock, todo, ff, sg,
                   crashed, counters>>

\* lock.user_scope('remote-fetch'): the lock is free
LockFree == lock = None

\* fetch_folder entered without looking at the lock
FetchFolderEnter_no_lock(p) ==
    /\ pc[p] = "fetch"
    /\ todo[p] # <<>>
    /\ lock' = p
    /\ LET tag == Head(todo[p])
           saved == SavedUidnext(tag)
           uidval == r_uidvalidity[tag]
           reset == uidval # saved[1]
       IN  ff' = [ff EXCEPT ![p] =
                    [tag |-> tag,
                     uidvalidity |-> IF reset THEN uidval ELSE saved[1],
                     uidnext |-> IF reset THEN 1 ELSE saved[2],
                     folder |-> [uidnext |-> r_uidnext[tag], uidval |-> uidval],
                     uids |-> {}, batches |-> <<>>]]
    /\ pc' = [pc EXCEPT ![p] = "ff_search"]
    /\ conn' = [conn EXCEPT ![p].open = TRUE]
    /\ UNCHANGED <<gmail, remoteVars, localVars, parsed, settingVars, op, todo, sg, last,
                   histVars, userops, failures,
                   setting_got, webVars>>

\* fetch_folder keeping the saved UIDNEXT when the UIDVALIDITY differs
FetchFolderEnter_no_reset(p) ==
    /\ pc[p] = "fetch"
    /\ todo[p] # <<>>
    /\ LockFree
    /\ lock' = p
    /\ LET tag == Head(todo[p])
           saved == SavedUidnext(tag)
           uidval == r_uidvalidity[tag]
       IN  ff' = [ff EXCEPT ![p] =
                    [tag |-> tag,
                     uidvalidity |-> uidval,
                     uidnext |-> saved[2],
                     folder |-> [uidnext |-> r_uidnext[tag], uidval |-> uidval],
                     uids |-> {}, batches |-> <<>>]]
    /\ pc' = [pc EXCEPT ![p] = "ff_search"]
    /\ conn' = [conn EXCEPT ![p].open = TRUE]
    /\ UNCHANGED <<gmail, remoteVars, localVars, parsed, settingVars, op, todo, sg, last,
                   histVars, userops, failures,
                   setting_got, webVars>>

\* @lock.user_scope('remote-fetch') def fetch_folder: take the lock, read
\* the saved cursor, select the folder
FetchFolderEnter(p) ==
    /\ pc[p] = "fetch"
    /\ todo[p] # <<>>
    /\ LockFree
    /\ lock' = p
    /\ LET tag == Head(todo[p])
           saved == SavedUidnext(tag)
           uidval == r_uidvalidity[tag]
           reset == uidval # saved[1]
       IN  ff' = [ff EXCEPT ![p] =
                    [tag |-> tag,
                     uidvalidity |-> IF reset THEN uidval ELSE saved[1],
                     uidnext |-> IF reset THEN 1 ELSE saved[2],
                     folder |-> [uidnext |-> r_uidnext[tag], uidval |-> uidval],
                     uids |-> {}, batches |-> <<>>]]
    /\ pc' = [pc EXCEPT ![p] = "ff_search"]
    /\ conn' = [conn EXCEPT ![p].open = TRUE]
    /\ UNCHANGED <<gmail, remoteVars, localVars, parsed, settingVars, op, todo, sg, last,
                   histVars, userops, failures,
                   setting_got, webVars>>

\* fetch_folder finds the lock held: lock.Error, which sync() catches
FetchFolderLocked(p) ==
    /\ pc[p] = "fetch"
    /\ todo[p] # <<>>
    /\ ~LockFree
    /\ todo' = [todo EXCEPT ![p] = <<>>]
    /\ pc' = [pc EXCEPT ![p] = IF op[p] = "sync" THEN "sync_account" ELSE "idle"]
    /\ last' = [last EXCEPT ![p] = IF op[p] = "sync" THEN last[p] ELSE "lock_error"]
    /\ contended' = [contended EXCEPT ![p] = TRUE]
    /\ UNCHANGED <<gmail, remoteVars, localVars, parsed, settingVars, lock, op, ff, sg,
                   crashed, counters>>

\* fetch_folder with the cursor saved before the batches are fetched
FetchFolderSearch_saves_first(p) ==
    /\ pc[p] = "ff_search"
    /\ LET uids == {i \in Search(ff[p].tag, ff[p].uidnext) : i >= ff[p].uidnext}
       IN  /\ ff' = [ff EXCEPT ![p].uids = uids,
                               ![p].uidnext = ff[p].folder.uidnext,
                               ![p].batches = IF uids = {} THEN <<>> ELSE UidsBatches(uids)]
           /\ pc' = [pc EXCEPT ![p] = IF uids = {} THEN "ff_save" ELSE "ff_fetch"]
    /\ data_uidnext' = DataSet(data_uidnext, ff[p].tag,
                               <<ff[p].uidvalidity, ff[p].folder.uidnext>>)
    /\ conn' = [conn EXCEPT ![p].open = FALSE]
    /\ UNCHANGED <<gmail, remoteVars, localVars, parsed, data_modseq, lock, op, todo, sg,
                   last, histVars, userops, failures,
                   setting_got, webVars>>

\* fetch_folder without the filter of the UIDs below the saved UIDNEXT
FetchFolderSearch_no_filter(p) ==
    /\ pc[p] = "ff_search"
    /\ LET uids == Search(ff[p].tag, ff[p].uidnext)
       IN  /\ ff' = [ff EXCEPT ![p].uids = uids,
                               ![p].uidnext = ff[p].folder.uidnext,
                               ![p].batches = IF uids = {} THEN <<>> ELSE UidsBatches(uids)]
           /\ pc' = [pc EXCEPT ![p] = IF uids = {} THEN "ff_save" ELSE "ff_fetch"]
    /\ conn' = [conn EXCEPT ![p].open = FALSE]
    /\ UNCHANGED <<gmail, remoteVars, localVars, parsed, settingVars, lock, op, todo, sg,
                   last, histVars, userops, failures,
                   setting_got, webVars>>

\* fetch_folder: search the new UIDs, re-filter, log out, split in batches
FetchFolderSearch(p) ==
    /\ pc[p] = "ff_search"
    /\ LET uids == {i \in Search(ff[p].tag, ff[p].uidnext) : i >= ff[p].uidnext}
       IN  /\ ff' = [ff EXCEPT ![p].uids = uids,
                               ![p].uidnext = ff[p].folder.uidnext,
                               ![p].batches = IF uids = {} THEN <<>> ELSE UidsBatches(uids)]
           /\ pc' = [pc EXCEPT ![p] = IF uids = {} THEN "ff_save" ELSE "ff_fetch"]
    /\ conn' = [conn EXCEPT ![p].open = FALSE]
    /\ UNCHANGED <<gmail, remoteVars, localVars, parsed, settingVars, lock, op, todo, sg,
                   last, histVars, userops, failures,
                   setting_got, webVars>>

\* fetch_imap: scan the X-SHA256 headers of SRC
FetchImapScan(p, b) ==
    /\ pc[p] = "ff_fetch"
    /\ ~gmail
    /\ b \in DOMAIN ff[p].batches
    /\ ff[p].batches[b].st = "new"
    /\ ff' = [ff EXCEPT ![p].batches[b].st = "scanned",
                        ![p].batches[b].exists = ExistsSha256]
    /\ UNCHANGED <<gmail, remoteVars, localVars, parsed, settingVars, lock, pc, op, todo,
                   sg, last, histVars, counters>>

\* fetch_imap: fetch the batch from the remote and build the rows
FetchImapMsgs(p, b) ==
    /\ pc[p] = "ff_fetch"
    /\ ~gmail
    /\ b \in DOMAIN ff[p].batches
    /\ ff[p].batches[b].st = "scanned"
    /\ ff' = [ff EXCEPT ![p].batches[b].st = "fetched",
                        ![p].batches[b].msgs =
                            ImapMsgs(ff[p].tag, ff[p].batches[b].uids, ff[p].batches[b].exists)]
    /\ UNCHANGED <<gmail, remoteVars, localVars, parsed, settingVars, lock, pc, op, todo,
                   sg, last, histVars, counters>>

\* fetch_gmail: scan the X-GM-MSGID headers of SRC
FetchGmailScan(p, b) ==
    /\ pc[p] = "ff_fetch"
    /\ gmail
    /\ b \in DOMAIN ff[p].batches
    /\ ff[p].batches[b].st = "new"
    /\ ff' = [ff EXCEPT ![p].batches[b].st = "scanned",
                        ![p].batches[b].exists = DOMAIN uids_by_msgid_gmail]
    /\ UNCHANGED <<gmail, remoteVars, localVars, parsed, settingVars, lock, pc, op, todo,
                   sg, last, histVars, counters>>

\* fetch_gmail: drop the UIDs of known messages, fetch the others and build
\* the rows; with no new UID the batch returns at once
FetchGmailMsgs(p, b) ==
    /\ pc[p] = "ff_fetch"
    /\ gmail
    /\ b \in DOMAIN ff[p].batches
    /\ ff[p].batches[b].st = "scanned"
    /\ LET existing == ff[p].batches[b].exists
           new_uids == GmailNewUids(ff[p].tag, ff[p].batches[b].uids, existing)
       IN  ff' = [ff EXCEPT ![p].batches[b].st = IF new_uids = <<>> THEN "done" ELSE "fetched",
                            ![p].batches[b].msgs = GmailMsgs(ff[p].tag, new_uids, existing)]
    /\ UNCHANGED <<gmail, remoteVars, localVars, parsed, settingVars, lock, pc, op, todo,
                   sg, last, histVars, counters>>

\* fetch_imap, fetch_gmail: append the rows of the batch to SRC
FetchAppend(p, b) ==
    /\ pc[p] = "ff_fetch"
    /\ b \in DOMAIN ff[p].batches
    /\ ff[p].batches[b].st = "fetched"
    /\ Multiappend(ff[p].batches[b].msgs)
    /\ ff' = [ff EXCEPT ![p].batches[b].st = "done"]
    /\ UNCHANGED <<gmail, remoteVars, parsed, settingVars, lock, pc, op, todo,
                   sg, last, histVars, counters>>

\* uids.call_async(...) returns when every sub-batch has returned
CallAsyncJoin(p) ==
    /\ pc[p] = "ff_fetch"
    /\ \A b \in DOMAIN ff[p].batches : ff[p].batches[b].st = "done"
    /\ pc' = [pc EXCEPT ![p] = "ff_save"]
    /\ UNCHANGED <<gmail, remoteVars, localVars, parsed, settingVars, lock, op, todo, ff,
                   sg, last, histVars, counters>>

\* what follows fetch() in the entry point that called it
AfterFetch(p) == IF op[p] \in {"sync", "send"} THEN "parse" ELSE "idle"

\* fetch_folder saving the UIDNEXT the folder has when the cursor is written
FetchFolderSave_uidnext_now(p) ==
    /\ pc[p] = "ff_save"
    /\ data_uidnext' = DataSet(data_uidnext, ff[p].tag,
                               <<ff[p].uidvalidity, r_uidnext[ff[p].tag]>>)
    /\ lock' = None
    /\ todo' = [todo EXCEPT ![p] = Tail(todo[p])]
    /\ pc' = [pc EXCEPT ![p] = IF Tail(todo[p]) # <<>> THEN "fetch" ELSE AfterFetch(p)]
    /\ last' = [last EXCEPT ![p] =
                  IF Tail(todo[p]) = <<>> /\ op[p] = "fetch" THEN "ok" ELSE last[p]]
    /\ ff' = [ff EXCEPT ![p] = NoFetchFolder]
    /\ crashed' = [crashed EXCEPT ![ff[p].tag] = FALSE]
    /\ UNCHANGED <<gmail, remoteVars, localVars, parsed, data_modseq, op, sg, contended,
                   counters>>

\* fetch_folder: save the cursor; the lock is released on return
FetchFolderSave(p) ==
    /\ pc[p] = "ff_save"
    /\ data_uidnext' = DataSet(data_uidnext, ff[p].tag, <<ff[p].uidvalidity, ff[p].uidnext>>)
    /\ lock' = None
    /\ todo' = [todo EXCEPT ![p] = Tail(todo[p])]
    /\ pc' = [pc EXCEPT ![p] = IF Tail(todo[p]) # <<>> THEN "fetch" ELSE AfterFetch(p)]
    /\ last' = [last EXCEPT ![p] =
                  IF Tail(todo[p]) = <<>> /\ op[p] = "fetch" THEN "ok" ELSE last[p]]
    /\ ff' = [ff EXCEPT ![p] = NoFetchFolder]
    /\ crashed' = [crashed EXCEPT ![ff[p].tag] = FALSE]
    /\ UNCHANGED <<gmail, remoteVars, localVars, parsed, data_modseq, op, sg, contended,
                   counters>>

\* a sub-batch of the call has appended its rows
Appended(p) ==
    \E b \in DOMAIN ff[p].batches :
        ff[p].batches[b].st = "done" /\ ff[p].batches[b].msgs # <<>>

\* fetch_folder raises (network error, IMAP NO/BAD, timeout); the lock is
\* released on the way out and neither fetch() nor sync() catches it
FetchFolderFail(p) ==
    /\ pc[p] \in {"ff_search", "ff_fetch", "ff_save"}
    /\ lock' = None
    /\ todo' = [todo EXCEPT ![p] = <<>>]
    /\ pc' = [pc EXCEPT ![p] = "idle"]
    /\ last' = [last EXCEPT ![p] = "error"]
    /\ ff' = [ff EXCEPT ![p] = NoFetchFolder]
    /\ crashed' = [crashed EXCEPT ![ff[p].tag] = @ \/ Appended(p)]
    /\ conn' = [conn EXCEPT ![p] = [open |-> FALSE, leaked |-> @.leaked \/ @.open]]
    /\ UNCHANGED <<gmail, remoteVars, localVars, parsed, settingVars, op, sg, contended,
                   userops, failures,
                   setting_got, webVars>>

\* local.parse(): every row of SRC is parsed; sync() goes on, send() returns
Parse(p) ==
    /\ pc[p] = "parse"
    /\ parsed' = Len(src)
    /\ pc' = [pc EXCEPT ![p] = IF op[p] = "sync" THEN "sync_account" ELSE "idle"]
    /\ last' = [last EXCEPT ![p] = IF op[p] = "sync" THEN last[p] ELSE "ok"]
    /\ UNCHANGED <<gmail, remoteVars, localVars, settingVars, lock, op, todo, ff, sg,
                   histVars, counters>>

(***************************************************************************)
(* The Gmail remote: labels, the folders they put a message in, STORE.     *)
(***************************************************************************)
CurRemote ==
    [msgs |-> r_msgs, uidnext |-> r_uidnext, labels |-> g_labels, flags |-> g_flags,
     modseq |-> g_modseq, hms |-> r_highestmodseq]

SetRemote(R) ==
    /\ r_msgs' = R.msgs
    /\ r_uidnext' = R.uidnext
    /\ g_labels' = R.labels
    /\ g_flags' = R.flags
    /\ g_modseq' = R.modseq
    /\ r_highestmodseq' = R.hms
    /\ UNCHANGED r_uidvalidity

\* the folder a Gmail message lives in
GResident(labels) ==
    IF Trash \in labels THEN Trash ELSE IF Junk \in labels THEN Junk ELSE All

\* the folders a Gmail message is visible in
GFolders(labels) ==
    IF GResident(labels) = All /\ Inbox \in labels THEN {All, Inbox}
    ELSE {GResident(labels)}

\* message m gets these labels and flags: it enters and leaves folders as
\* its labels say (a new UID in a folder it enters), and its MODSEQ rises
\* when anything changed
GPlace(R, m, labels, flags) ==
    LET changed == labels # R.labels[m] \/ flags # R.flags[m]
        want == GFolders(labels)
        isin(f) == m \in FRange(R.msgs[f])
        res == GResident(labels)
        hms == IF changed THEN [R.hms EXCEPT ![res] = @ + 1] ELSE R.hms
    IN  [msgs |-> [f \in DOMAIN R.msgs |->
                    IF f \in want /\ ~isin(f) THEN (R.uidnext[f] :> m) @@ R.msgs[f]
                    ELSE IF f \notin want /\ isin(f)
                         THEN [u \in {v \in DOMAIN R.msgs[f] : R.msgs[f][v] # m} |-> R.msgs[f][u]]
                    ELSE R.msgs[f]],
         uidnext |-> [f \in DOMAIN R.uidnext |->
                    IF f \in want /\ ~isin(f) THEN R.uidnext[f] + 1 ELSE R.uidnext[f]],
         labels |-> [R.labels EXCEPT ![m] = labels],
         flags |-> [R.flags EXCEPT ![m] = flags],
         modseq |-> IF changed THEN [R.modseq EXCEPT ![m] = hms[res]] ELSE R.modseq,
         hms |-> hms]

\* STORE +X-GM-LABELS: adding \Inbox to a message of \Trash or \Junk moves
\* it out of that folder
GStoreAdd(R, m, labels) ==
    LET cur == R.labels[m]
        moved == Inbox \in labels /\ cur \cap {Trash, Junk} # {}
                    /\ labels \cap {Trash, Junk} = {}
    IN  GPlace(R, m, IF moved THEN (cur \cup labels) \ {Trash, Junk} ELSE cur \cup labels,
               R.flags[m])

\* STORE -X-GM-LABELS
GStoreRemove(R, m, labels) == GPlace(R, m, R.labels[m] \ labels, R.flags[m])

\* STORE +FLAGS.SILENT / -FLAGS.SILENT
GStoreFlag(R, m, flag, on) ==
    GPlace(R, m, R.labels[m], IF on THEN R.flags[m] \cup {flag} ELSE R.flags[m] \ {flag})

(***************************************************************************)
(* sync_gmail()                                                            *)
(***************************************************************************)
NoSyncGmail ==
    [uids_by_msgid |-> <<>>, flags_by_uid_remote |-> <<>>, flags_by_uid_local |-> <<>>,
     modseqs |-> <<>>, saved |-> <<>>, todo |-> <<>>, to_remote |-> {},
     remote_changes |-> {}, save |-> <<>>]

\* sync_gmail: label_by_flag
label_by_flag(flag) ==
    CASE flag = "#trash" -> Trash
      [] flag = "#spam" -> Junk
      [] flag = "#inbox" -> Inbox
      [] flag = "\\Flagged" -> "\\Starred"

LabelFlags == {"#trash", "#spam", "#inbox", "\\Flagged"}
SyncedLabels == {label_by_flag(f) : f \in LabelFlags}

\* sync_gmail: folders
folders == {Trash, Junk}

\* sync_gmail: flags_synced
flags_synced == {"#trash", "#spam", "#inbox", "\\Flagged", "\\Seen"}

\* sync_gmail.find_uid_remote: the first folder of get_folders() where the
\* search for the X-GM-MSGID finds something
RECURSIVE FindIn(_, _, _)
FindIn(R, tags, msgid) ==
    LET tag == Head(tags)
        res == {u \in DOMAIN R.msgs[tag] : R.msgs[tag][u] = msgid}
    IN  IF res # {} THEN [uid |-> Min(res), tag |-> tag]
        ELSE IF Tail(tags) = <<>> THEN [uid |-> None, tag |-> tag]
        ELSE FindIn(R, Tail(tags), msgid)

find_uid_remote(R, msgid) == FindIn(R, GetFolders, msgid)

\* sync_msg_to_remote: labels, the labels the local flags ask for
PushLabels(flags) == {label_by_flag(f) : f \in flags \cap LabelFlags}

\* sync_msg_to_remote: the message is found and the condition of the
\* relocating STORE +X-GM-LABELS \Inbox holds
Relocates(R, msgid, flags) ==
    LET f1 == find_uid_remote(R, msgid)
    IN  /\ f1.uid # None
        /\ (SyncedLabels \ PushLabels(flags)) \cap folders # {}
        /\ f1.tag \in folders

\* the one element of a singleton
The(S) == CHOOSE x \in S : TRUE

\* sync_gmail.sync_msg_to_remote; a STORE acts on the message its UID named
\* in the folder where it was found
sync_msg_to_remote(R, msgid, flags) ==
    LET f1 == find_uid_remote(R, msgid)
        labels == PushLabels(flags)
        labels_removed == SyncedLabels \ labels
        relocate == Relocates(R, msgid, flags)
    IN  IF f1.uid = None THEN R
        ELSE The({The({The({The({GStoreFlag(R3, m, "\\Seen", "\\Seen" \in flags) :
                 R3 \in {IF labels_removed # {} THEN GStoreRemove(R2, m, labels_removed)
                         ELSE R2}}) :
                 R2 \in {IF labels # {} THEN GStoreAdd(R1, m, labels) ELSE R1}}) :
                 m \in {LET f2 == IF relocate THEN find_uid_remote(R1, msgid) ELSE f1
                        IN  R1.msgs[f2.tag][f2.uid]}}) :
                 R1 \in {IF relocate THEN GStoreAdd(R, R.msgs[f1.tag][f1.uid], {Inbox})
                         ELSE R}})

\* sync(): the account is a Gmail one; sync_gmail: index SRC by X-GM-MSGID
SyncGmailIndex(p) ==
    /\ pc[p] = "sync_account"
    /\ gmail
    /\ sg' = [sg EXCEPT ![p] = [NoSyncGmail EXCEPT !.uids_by_msgid = uids_by_msgid_gmail,
                                                   !.todo = GetFolders]]
    /\ pc' = [pc EXCEPT ![p] = "sg_remote"]
    /\ UNCHANGED <<gmail, remoteVars, localVars, parsed, settingVars, lock, op, todo, ff,
                   last, histVars, counters>>

\* sync(): the account is not a Gmail one
SyncReturn(p) ==
    /\ pc[p] = "sync_account"
    /\ ~gmail
    /\ pc' = [pc EXCEPT ![p] = "idle"]
    /\ last' = [last EXCEPT ![p] = "ok"]
    /\ UNCHANGED <<gmail, remoteVars, localVars, parsed, settingVars, lock, op, todo, ff,
                   sg, histVars, counters>>

\* get_remote_flags_for_sync saving the cursor as soon as it is read
GetRemoteFlags_saves_first(p) ==
    /\ pc[p] = "sg_remote"
    /\ LET tag == Head(sg[p].todo)
           modseq_gmail == data_modseq[tag]
           changed == IF modseq_gmail = None THEN {}
                      ELSE {m \in FRange(r_msgs[tag]) :
                                g_modseq[m] > modseq_gmail /\ m \in DOMAIN sg[p].uids_by_msgid}
           found == [u \in {sg[p].uids_by_msgid[m] : m \in changed} |->
                        LET m == CHOOSE x \in changed : sg[p].uids_by_msgid[x] = u
                        IN  flags_by_gmail(tag, g_flags[m], g_labels[m])]
       IN  /\ sg' = [sg EXCEPT ![p].modseqs = (tag :> r_highestmodseq[tag]) @@ @,
                               ![p].saved = (tag :> modseq_gmail) @@ @,
                               ![p].flags_by_uid_remote = found @@ @,
                               ![p].todo = Tail(@)]
           /\ pc' = [pc EXCEPT ![p] = IF Tail(sg[p].todo) = <<>> THEN "sg_local" ELSE "sg_remote"]
           /\ data_modseq' = DataSet(data_modseq, tag, r_highestmodseq[tag])
    /\ UNCHANGED <<gmail, remoteVars, localVars, parsed, data_uidnext, lock, op, todo, ff,
                   last, histVars, counters>>

\* sync_gmail.get_remote_flags_for_sync of the next folder
GetRemoteFlags(p) ==
    /\ pc[p] = "sg_remote"
    /\ LET tag == Head(sg[p].todo)
           modseq_gmail == data_modseq[tag]
           changed == IF modseq_gmail = None THEN {}
                      ELSE {m \in FRange(r_msgs[tag]) :
                                g_modseq[m] > modseq_gmail /\ m \in DOMAIN sg[p].uids_by_msgid}
           found == [u \in {sg[p].uids_by_msgid[m] : m \in changed} |->
                        LET m == CHOOSE x \in changed : sg[p].uids_by_msgid[x] = u
                        IN  flags_by_gmail(tag, g_flags[m], g_labels[m])]
       IN  /\ sg' = [sg EXCEPT ![p].modseqs = (tag :> r_highestmodseq[tag]) @@ @,
                               ![p].saved = (tag :> modseq_gmail) @@ @,
                               ![p].flags_by_uid_remote = found @@ @,
                               ![p].todo = Tail(@)]
           /\ pc' = [pc EXCEPT ![p] = IF Tail(sg[p].todo) = <<>> THEN "sg_local" ELSE "sg_remote"]
    /\ UNCHANGED <<gmail, remoteVars, localVars, parsed, settingVars, lock, op, todo, ff,
                   last, histVars, counters>>

\* get_local_flags_for_sync fetching the changes also when no cursor is saved
GetLocalFlags_no_seed(p) ==
    /\ pc[p] = "sg_local"
    /\ LET modseq_local == data_modseq[Local]
           changed == {i \in 1..Len(src) : src_modseq[i] > modseq_local}
       IN  sg' = [sg EXCEPT ![p].modseqs = (Local :> l_highestmodseq) @@ @,
                            ![p].saved = (Local :> modseq_local) @@ @,
                            ![p].flags_by_uid_local = [i \in changed |-> src_flags[i]]]
    /\ pc' = [pc EXCEPT ![p] = "sg_flags"]
    /\ UNCHANGED <<gmail, remoteVars, localVars, parsed, settingVars, lock, op, todo, ff,
                   last, histVars, counters>>

\* sync_gmail.get_local_flags_for_sync
GetLocalFlags(p) ==
    /\ pc[p] = "sg_local"
    /\ LET modseq_local == data_modseq[Local]
           changed == IF modseq_local = None THEN {}
                      ELSE {i \in 1..Len(src) : src_modseq[i] > modseq_local}
       IN  sg' = [sg EXCEPT ![p].modseqs = (Local :> l_highestmodseq) @@ @,
                            ![p].saved = (Local :> modseq_local) @@ @,
                            ![p].flags_by_uid_local = [i \in changed |-> src_flags[i]]]
    /\ pc' = [pc EXCEPT ![p] = "sg_flags"]
    /\ UNCHANGED <<gmail, remoteVars, localVars, parsed, settingVars, lock, op, todo, ff,
                   last, histVars, counters>>

\* sync_flags pushing the local changes only
UidsToRemote_local_only(flags_by_uid_local, flags_by_uid_remote) ==
    (DOMAIN flags_by_uid_local) \ (DOMAIN flags_by_uid_remote)

\* sync_gmail.sync_flags: both_changes | local_changes
UidsToRemote(flags_by_uid_local, flags_by_uid_remote) ==
    ((DOMAIN flags_by_uid_local) \cap (DOMAIN flags_by_uid_remote))
        \cup ((DOMAIN flags_by_uid_local) \ (DOMAIN flags_by_uid_remote))

\* sync_flags pulling nothing
RemoteChanges_none(flags_by_uid_local, flags_by_uid_remote) ==
    (DOMAIN flags_by_uid_remote) \ (DOMAIN flags_by_uid_remote)

\* sync_gmail.sync_flags: remote_changes
RemoteChanges(flags_by_uid_local, flags_by_uid_remote) ==
    (DOMAIN flags_by_uid_remote) \ (DOMAIN flags_by_uid_local)

\* the keys of modseqs, in the order they were set
SaveOrder == GetFolders \o <<Local>>

\* where sync_gmail is after the push of to_remote and the pull of remote_changes
AfterFlags(to_remote, remote_changes) ==
    IF to_remote # {} THEN "sg_push"
    ELSE IF remote_changes # {} THEN "sg_pull" ELSE "sg_save"

\* sync_gmail.sync_flags: split the changes
SyncFlags(p) ==
    /\ pc[p] = "sg_flags"
    /\ LET to_remote == UidsToRemote(sg[p].flags_by_uid_local, sg[p].flags_by_uid_remote)
           remote_changes == RemoteChanges(sg[p].flags_by_uid_local, sg[p].flags_by_uid_remote)
       IN  /\ sg' = [sg EXCEPT ![p].to_remote = to_remote,
                               ![p].remote_changes = remote_changes,
                               ![p].save = SaveOrder]
           /\ pc' = [pc EXCEPT ![p] = AfterFlags(to_remote, remote_changes)]
    /\ UNCHANGED <<gmail, remoteVars, localVars, parsed, settingVars, lock, op, todo, ff,
                   last, histVars, counters>>

\* sync_gmail.sync_flags: push the flags of one local uid to the remote
SyncPush(p, uid) ==
    /\ pc[p] = "sg_push"
    /\ uid \in sg[p].to_remote
    /\ uid \in FRange(sg[p].uids_by_msgid)
    /\ LET msgid == CHOOSE k \in DOMAIN sg[p].uids_by_msgid : sg[p].uids_by_msgid[k] = uid
       IN  SetRemote(sync_msg_to_remote(CurRemote, msgid, sg[p].flags_by_uid_local[uid]))
    /\ sg' = [sg EXCEPT ![p].to_remote = @ \ {uid}]
    /\ pc' = [pc EXCEPT ![p] = AfterFlags(sg[p].to_remote \ {uid}, sg[p].remote_changes)]
    /\ UNCHANGED <<gmail, localVars, parsed, settingVars, lock, op, todo, ff,
                   last, histVars, counters>>

\* sync_gmail.sync_flags: msgids_by_uid[uid] of a local uid that is not in
\* the index raises KeyError, inside the loop of the pushes
SyncPushKeyError(p, uid) ==
    /\ pc[p] = "sg_push"
    /\ uid \in sg[p].to_remote
    /\ uid \notin FRange(sg[p].uids_by_msgid)
    /\ failures' = IF failures < MaxFail THEN failures + 1 ELSE failures
    /\ pc' = [pc EXCEPT ![p] = "idle"]
    /\ last' = [last EXCEPT ![p] = "error"]
    /\ sg' = [sg EXCEPT ![p] = NoSyncGmail]
    /\ UNCHANGED <<gmail, remoteVars, localVars, parsed, settingVars, lock, op, todo, ff,
                   histVars, userops, conn, setting_got, webVars>>

\* local.msgs_flag(uids, old, new) on the rows paired with uids
MsgsFlag(uid, old, new) ==
    LET flags == (src_flags[uid] \ old) \cup new
    IN  /\ src_flags' = [src_flags EXCEPT ![uid] = flags]
        /\ IF flags # src_flags[uid]
           THEN /\ l_highestmodseq' = l_highestmodseq + 1
                /\ src_modseq' = [src_modseq EXCEPT ![uid] = l_highestmodseq + 1]
           ELSE UNCHANGED <<l_highestmodseq, src_modseq>>
        /\ UNCHANGED src

\* sync_gmail.sync_flags: pull the flags of one remote change
SyncPull(p, uid) ==
    /\ pc[p] = "sg_pull"
    /\ uid \in sg[p].remote_changes
    /\ LET flags == sg[p].flags_by_uid_remote[uid]
       IN  IF uid <= parsed THEN MsgsFlag(uid, flags_synced \ flags, flags)
           ELSE UNCHANGED localVars
    /\ sg' = [sg EXCEPT ![p].remote_changes = @ \ {uid}]
    /\ pc' = [pc EXCEPT ![p] = AfterFlags({}, sg[p].remote_changes \ {uid})]
    /\ UNCHANGED <<gmail, remoteVars, parsed, settingVars, lock, op, todo, ff,
                   last, histVars, counters>>

\* sync_gmail: data_modseq(key, value) of the next key of modseqs
SaveModseq(p) ==
    /\ pc[p] = "sg_save"
    /\ LET key == Head(sg[p].save)
       IN  data_modseq' = DataSet(data_modseq, key, sg[p].modseqs[key])
    /\ IF Tail(sg[p].save) = <<>>
       THEN /\ pc' = [pc EXCEPT ![p] = "idle"]
            /\ last' = [last EXCEPT ![p] = "ok"]
            /\ sg' = [sg EXCEPT ![p] = NoSyncGmail]
       ELSE /\ sg' = [sg EXCEPT ![p].save = Tail(@)]
            /\ UNCHANGED <<pc, last>>
    /\ UNCHANGED <<gmail, remoteVars, localVars, parsed, data_uidnext, lock, op, todo, ff,
                   histVars, counters>>

\* data_modseq(key, value), first half: setting = data_modseq.get()
DataModseqGet(p) ==
    /\ pc[p] = "sg_save"
    /\ setting_got' = [setting_got EXCEPT ![p] = data_modseq]
    /\ pc' = [pc EXCEPT ![p] = "sg_put"]
    /\ UNCHANGED <<gmail, remoteVars, localVars, parsed, settingVars, lock, op, todo, ff,
                   sg, last, histVars, userops, failures, conn, webVars>>

\* data_modseq(key, value), second half: setting[key] = value and the map
\* that was read is written back whole; then the next key of modseqs
DataModseqPut(p) ==
    /\ pc[p] = "sg_put"
    /\ LET key == Head(sg[p].save)
       IN  data_modseq' = DataSet(setting_got[p], key, sg[p].modseqs[key])
    /\ setting_got' = [setting_got EXCEPT ![p] = None]
    /\ IF Tail(sg[p].save) = <<>>
       THEN /\ pc' = [pc EXCEPT ![p] = "idle"]
            /\ last' = [last EXCEPT ![p] = "ok"]
            /\ sg' = [sg EXCEPT ![p] = NoSyncGmail]
       ELSE /\ sg' = [sg EXCEPT ![p].save = Tail(@)]
            /\ pc' = [pc EXCEPT ![p] = "sg_save"]
            /\ UNCHANGED last
    /\ UNCHANGED <<gmail, remoteVars, localVars, parsed, data_uidnext, lock, op, todo, ff,
                   histVars, userops, failures, conn, webVars>>

InSyncGmail(p) == pc[p] \in {"sg_remote", "sg_local", "sg_flags", "sg_push", "sg_pull", "sg_save"}

\* sync_gmail raises (network error, IMAP NO/BAD, timeout)
SyncGmailFail(p) ==
    /\ InSyncGmail(p)
    /\ failures < MaxFail
    /\ failures' = failures + 1
    /\ pc' = [pc EXCEPT ![p] = "idle"]
    /\ last' = [last EXCEPT ![p] = "error"]
    /\ sg' = [sg EXCEPT ![p] = [NoSyncGmail EXCEPT !.modseqs = sg[p].modseqs,
                                                   !.saved = sg[p].saved]]
    /\ UNCHANGED <<gmail, remoteVars, localVars, parsed, settingVars, lock, op, todo, ff,
                   histVars, userops, conn,
                   setting_got, webVars>>

(***************************************************************************)
(* The remote side and the user.                                           *)
(***************************************************************************)
\* the messages that have arrived so far
Delivered ==
    IF gmail THEN Cardinality(DOMAIN g_labels)
    ELSE LET n(t) == IF t \in DOMAIN r_msgs THEN Cardinality(DOMAIN r_msgs[t]) ELSE 0
         IN  n(All) + n(Inbox) + n(Sent)

\* a message arrives in a folder of a generic remote
RemoteDeliver(tag, mid) ==
    /\ ~gmail
    /\ tag \in DOMAIN r_msgs
    /\ Delivered < MaxDeliver
    /\ r_msgs' = [r_msgs EXCEPT ![tag] = (r_uidnext[tag] :> mid) @@ r_msgs[tag]]
    /\ r_uidnext' = [r_uidnext EXCEPT ![tag] = r_uidnext[tag] + 1]
    /\ r_highestmodseq' = [r_highestmodseq EXCEPT ![tag] = @ + 1]
    /\ UNCHANGED <<gmail, r_uidvalidity, g_labels, g_flags, g_modseq, localVars, parsed,
                   settingVars, lock, pc, op, todo, ff, sg, last, histVars, counters>>

\* the remote rebuilds a folder: a new UIDVALIDITY, the first k messages
\* kept under the UIDs 1..k
RemoteRebuild(tag, k) ==
    /\ ~gmail
    /\ tag \in DOMAIN r_msgs
    /\ r_uidvalidity[tag] <= MaxRebuild
    /\ k \in 0..Cardinality(DOMAIN r_msgs[tag])
    /\ r_uidvalidity' = [r_uidvalidity EXCEPT ![tag] = @ + 1]
    /\ r_msgs' = [r_msgs EXCEPT ![tag] = [u \in 1..k |-> r_msgs[tag][u]]]
    /\ r_uidnext' = [r_uidnext EXCEPT ![tag] = k + 1]
    /\ r_highestmodseq' = [r_highestmodseq EXCEPT ![tag] = @ + 1]
    /\ UNCHANGED <<gmail, g_labels, g_flags, g_modseq, localVars, parsed,
                   settingVars, lock, pc, op, todo, ff, sg, last, histVars, counters>>

\* the labels and flags a Gmail message arrives with
GmailArrivals ==
    {[labels |-> {Inbox}, flags |-> {}],
     [labels |-> {Trash}, flags |-> {}],
     [labels |-> {"\\Draft"}, flags |-> {"\\Draft"}]}

\* a message enters a Gmail account, with the next X-GM-MSGID
GmailAdd(a) ==
    LET m == Delivered + 1
        res == GResident(a.labels)
    IN  /\ r_msgs' = [f \in DOMAIN r_msgs |->
                         IF f \in GFolders(a.labels)
                         THEN (r_uidnext[f] :> m) @@ r_msgs[f] ELSE r_msgs[f]]
        /\ r_uidnext' = [f \in DOMAIN r_uidnext |->
                         IF f \in GFolders(a.labels) THEN r_uidnext[f] + 1 ELSE r_uidnext[f]]
        /\ g_labels' = (m :> a.labels) @@ g_labels
        /\ g_flags' = (m :> a.flags) @@ g_flags
        /\ r_highestmodseq' = [r_highestmodseq EXCEPT ![res] = @ + 1]
        /\ g_modseq' = (m :> r_highestmodseq[res] + 1) @@ g_modseq
        /\ UNCHANGED r_uidvalidity

GmailDeliver(a) ==
    /\ gmail
    /\ Delivered < MaxDeliver
    /\ GmailAdd(a)
    /\ UNCHANGED <<gmail, localVars, parsed,
                   settingVars, lock, pc, op, todo, ff, sg, last, histVars, counters>>

(***************************************************************************)
(* send()                                                                  *)
(***************************************************************************)
\* send(msg): message.sending(msg), connect to the SMTP host
SendStart(p) ==
    /\ pc[p] = "idle"
    /\ gmail
    /\ Delivered < MaxDeliver
    /\ pc' = [pc EXCEPT ![p] = "smtp"]
    /\ op' = [op EXCEPT ![p] = "send"]
    /\ last' = [last EXCEPT ![p] = "running"]
    /\ contended' = [contended EXCEPT ![p] = FALSE]
    /\ UNCHANGED <<gmail, remoteVars, localVars, parsed, settingVars, lock, todo, ff, sg,
                   crashed, counters>>

\* send: con.sendmail(*params) succeeds, Gmail keeps the message under
\* \Sent; then fetch()
SmtpSubmit(p) ==
    /\ pc[p] = "smtp"
    /\ GmailAdd([labels |-> {Sent}, flags |-> {"\\Seen"}])
    /\ pc' = [pc EXCEPT ![p] = "fetch"]
    /\ todo' = [todo EXCEPT ![p] = GetFolders]
    /\ UNCHANGED <<gmail, localVars, parsed, settingVars, lock, op, ff, sg, last,
                   histVars, counters>>

\* send: the SMTP connection, login or submission raises
SmtpFail(p) ==
    /\ pc[p] = "smtp"
    /\ pc' = [pc EXCEPT ![p] = "idle"]
    /\ last' = [last EXCEPT ![p] = "error"]
    /\ UNCHANGED <<gmail, remoteVars, localVars, parsed, settingVars, lock, op, todo, ff,
                   sg, histVars, counters>>

\* the flags the user sets and clears on a local message
UserFlags == {"\\Seen", "#trash"}

\* web msgs_flag: the user adds or removes a flag of a parsed message
UserFlag(uid, old, new) ==
    /\ userops < MaxUserOps
    /\ uid \in 1..Len(src)
    /\ uid <= parsed
    /\ MsgsFlag(uid, old, new)
    /\ src_flags'[uid] # src_flags[uid]
    /\ userops' = userops + 1
    /\ UNCHANGED <<failures, conn, setting_got, webVars>>
    /\ UNCHANGED <<gmail, remoteVars, parsed, settingVars, lock, pc, op, todo, ff, sg,
                   last, histVars>>

\* what the user does to a message in the Gmail web client
GmailUserOps == {"star", "read", "trash"}

GmailUserLabels(labels, o) ==
    CASE o = "star" -> labels \cup {"\\Starred"}
      [] o = "trash" -> (labels \ {Inbox}) \cup {Trash}
      [] OTHER -> labels

GmailUserFlags(flags, o) ==
    CASE o = "read" -> flags \cup {"\\Seen"}
      [] o = "answer" -> flags \cup {"\\Answered"}
      [] OTHER -> flags

\* the user changes a message in the Gmail web client
GmailUserLabel(m, o) ==
    /\ gmail
    /\ userops < MaxUserOps
    /\ m \in DOMAIN g_labels
    /\ "\\Draft" \notin g_labels[m]
    /\ (o = "trash" => Trash \notin g_labels[m])
    /\ LET R == GPlace(CurRemote, m, GmailUserLabels(g_labels[m], o),
                       GmailUserFlags(g_flags[m], o))
       IN  /\ R # CurRemote
           /\ SetRemote(R)
    /\ userops' = userops + 1
    /\ UNCHANGED <<failures, conn, setting_got, webVars>>
    /\ UNCHANGED <<gmail, localVars, parsed, settingVars, lock, pc, op, todo, ff, sg,
                   last, histVars>>

(***************************************************************************)
(* web.parse_query(q)                                                      *)
(***************************************************************************)
\* the longest query, in tokens
MaxTokens == 2

\* the values date: takes: YYYY, YYYY-MM, YYYY-MM-DD
DateVals ==
    LET Years == {2019, 2020}
        Months == 1..12
        Days == {1, 28, 31}
    IN  {<<y>> : y \in Years} \cup {<<y, m>> : y \in Years, m \in Months}
            \cup {<<y, m, d>> : y \in Years, m \in {2, 12}, d \in Days}

\* the tokens of a query: the ones the pattern of parse_query recognises
\* and plain words
Tokens ==
    {[k |-> "tag", v |-> t] : t \in {"#inbox", "#trash", "#spam"}}
        \cup {[k |-> "from", v |-> "alice"], [k |-> "subj", v |-> "\"q1 report\""],
              [k |-> "unseen", v |-> ":unread"], [k |-> "word", v |-> "hello"]}
        \cup {[k |-> "date", v |-> d] : d \in DateVals}

RECURSIVE SeqsUpTo(_, _)
SeqsUpTo(S, n) ==
    IF n = 0 THEN {<<>>}
    ELSE LET shorter == SeqsUpTo(S, n - 1)
         IN  shorter \cup {Append(q, t) : q \in shorter, t \in S}

NoResult == [status |-> "none", parts |-> <<>>, tags |-> <<>>]

DaysIn(y, m) ==
    LET IsLeap == (y % 4 = 0 /\ y % 100 # 0) \/ y % 400 = 0
    IN  IF m = 2 THEN (IF IsLeap THEN 29 ELSE 28)
        ELSE IF m \in {4, 6, 9, 11} THEN 30 ELSE 31

\* a datetime the constructor accepts
ValidDate(d) ==
    /\ d.year \in 1..9999
    /\ d.month \in 1..12
    /\ d.day \in 1..DaysIn(d.year, d.month)

\* dt.datetime.strptime(val, '%Y' | '%Y-%m' | '%Y-%m-%d'): the fields that
\* are not given are 1
Strptime(val) ==
    [year |-> val[1],
     month |-> IF Len(val) >= 2 THEN val[2] ELSE 1,
     day |-> IF Len(val) >= 3 THEN val[3] ELSE 1]

\* date.strftime('%d-%b-%Y')
Strftime(d) == <<d.day, d.month, d.year>>

\* parse_query.replace, the branch of date: the dates of the clause, or
\* ValueError raised by strptime or by date.replace
DateDates(val) ==
    LET date == Strptime(val)
        dates == IF Len(val) = 1 THEN <<date, [date EXCEPT !.year = date.year + 1]>>
                 ELSE IF Len(val) = 2 THEN <<date, [date EXCEPT !.month = date.month + 1]>>
                 ELSE <<date>>
    IN  IF \A i \in 1..Len(dates) : ValidDate(dates[i]) THEN dates ELSE <<>>

\* parse_query.replace: the clause of one recognised token; <<>> stands for
\* ValueError
Replace(t) ==
    CASE t.k = "tag" -> <<"keyword", t.v>>
      [] t.k = "from" -> <<"from", <<"json", t.v>>>>
      [] t.k = "subj" -> <<"header subject", <<"json", "q1 report">>>>
      [] t.k = "unseen" -> <<"unseen">>
      [] t.k = "date" ->
            LET dates == DateDates(t.v)
            IN  IF dates = <<>> THEN <<>>
                ELSE IF Len(dates) = 1 THEN <<"on", Strftime(dates[1])>>
                ELSE <<"since", Strftime(dates[1]), "before", Strftime(dates[2])>>

\* opts['tags']: the values of the tag:, in:, has: tokens
QueryTags(q) ==
    LET tagged == SelectSeq(q, LAMBDA t : t.k = "tag")
    IN  [i \in 1..Len(tagged) |-> tagged[i].v]

InSeq(x, s) == \E i \in 1..Len(s) : s[i] = x

\* parse_query(q): the clauses of the expression and opts['tags']
parse_query(q) ==
    LET rec == SelectSeq(q, LAMBDA t : t.k # "word")
        clauses == [i \in 1..Len(rec) |-> Replace(rec[i])]
        words == SelectSeq(q, LAMBDA t : t.k = "word")
        text == IF words = <<>> THEN <<>>
                ELSE <<<<"text", [i \in 1..Len(words) |-> words[i].v]>>>>
        tags == QueryTags(q)
        trash == IF ~InSeq("#trash", tags) THEN <<<<"unkeyword", "#trash">>>> ELSE <<>>
        spam == IF ~InSeq("#spam", tags) /\ ~InSeq("#trash", tags)
                THEN <<<<"unkeyword", "#spam">>>> ELSE <<>>
    IN  IF InSeq(<<>>, clauses)
        THEN [status |-> "ValueError", parts |-> <<>>, tags |-> <<>>]
        ELSE [status |-> "ok",
              parts |-> clauses \o text \o <<<<"unkeyword", "#link">>>> \o trash \o spam,
              tags |-> tags]

\* the web side runs parse_query on the query it was given
ParseQuery ==
    /\ result = NoResult
    /\ result' = parse_query(query)
    /\ UNCHANGED <<gmail, remoteVars, localVars, parsed, settingVars, lock, pc, op, todo,
                   ff, sg, last, histVars, userops, failures, conn, setting_got, query>>

(***************************************************************************)
(* Initial states.                                                         *)
(***************************************************************************)
\* no query has been given to the web side
InitNoQuery ==
    /\ query = <<>>
    /\ result = NoResult

InitProcs ==
    /\ pc = [p \in Procs |-> "idle"]
    /\ op = [p \in Procs |-> "none"]
    /\ todo = [p \in Procs |-> <<>>]
    /\ ff = [p \in Procs |-> NoFetchFolder]
    /\ sg = [p \in Procs |-> NoSyncGmail]
    /\ last = [p \in Procs |-> "none"]
    /\ lock = None
    /\ crashed = [t \in Tags |-> FALSE]
    /\ contended = [p \in Procs |-> FALSE]
    /\ userops = 0
    /\ failures = 0
    /\ conn = [p \in Procs |-> [open |-> FALSE, leaked |-> FALSE]]
    /\ setting_got = [p \in Procs |-> None]

InitEmpty(tags) ==
    /\ r_uidvalidity = [t \in tags |-> 1]
    /\ r_uidnext = [t \in tags |-> 1]
    /\ r_msgs = [t \in tags |-> <<>>]
    /\ r_highestmodseq = [t \in tags |-> 1]
    /\ g_labels = <<>>
    /\ g_flags = <<>>
    /\ g_modseq = <<>>
    /\ src = <<>>
    /\ src_flags = <<>>
    /\ src_modseq = <<>>
    /\ l_highestmodseq = 1
    /\ parsed = 0
    /\ data_uidnext = [t \in Tags |-> <<None, None>>]
    /\ data_modseq = [t \in Tags \cup {Local} |-> None]

(***************************************************************************)
(* A generic IMAP account, one process fetching.                           *)
(***************************************************************************)
InitFetch ==
    /\ gmail = FALSE
    /\ InitEmpty({Inbox, Sent})
    /\ InitProcs
    /\ InitNoQuery

NextFetch ==
    \/ \E tag \in {Inbox, Sent} : FetchTag(1, tag)
    \/ FetchAll(1)
    \/ FetchFolderEnter(1)
    \/ FetchFolderSearch(1)
    \/ \E b \in 1..MaxDeliver : FetchImapScan(1, b)
    \/ \E b \in 1..MaxDeliver : FetchImapMsgs(1, b)
    \/ \E b \in 1..MaxDeliver : FetchAppend(1, b)
    \/ CallAsyncJoin(1)
    \/ FetchFolderSave(1)
    \/ FetchFolderFail(1)
    \/ \E tag \in {Inbox, Sent}, mid \in Bodies : RemoteDeliver(tag, mid)

SpecFetch == InitFetch /\ [][NextFetch]_vars

(***************************************************************************)
(* A generic IMAP account with one folder that the remote rebuilds, one    *)
(* process fetching.                                                       *)
(***************************************************************************)
InitRebuild ==
    /\ gmail = FALSE
    /\ InitEmpty({Inbox})
    /\ InitProcs
    /\ InitNoQuery

NextRebuild ==
    \/ FetchTag(1, Inbox)
    \/ FetchFolderEnter(1)
    \/ FetchFolderSearch(1)
    \/ \E b \in 1..MaxDeliver : FetchImapScan(1, b)
    \/ \E b \in 1..MaxDeliver : FetchImapMsgs(1, b)
    \/ \E b \in 1..MaxDeliver : FetchAppend(1, b)
    \/ CallAsyncJoin(1)
    \/ FetchFolderSave(1)
    \/ FetchFolderFail(1)
    \/ \E mid \in Bodies : RemoteDeliver(Inbox, mid)
    \/ \E lost \in 0..1 : RemoteRebuild(Inbox, Cardinality(DOMAIN r_msgs[Inbox]) - lost)

SpecRebuild == InitRebuild /\ [][NextRebuild]_vars

(***************************************************************************)
(* A Gmail account, one process fetching.                                  *)
(***************************************************************************)
GmailTags == {All, Inbox, Junk, Trash}

InitGmail ==
    /\ gmail = TRUE
    /\ InitEmpty(GmailTags)
    /\ InitProcs
    /\ InitNoQuery

NextGmail ==
    \/ \E tag \in GmailTags : FetchTag(1, tag)
    \/ FetchAll(1)
    \/ FetchFolderEnter(1)
    \/ FetchFolderSearch(1)
    \/ \E b \in 1..MaxDeliver : FetchGmailScan(1, b)
    \/ \E b \in 1..MaxDeliver : FetchGmailMsgs(1, b)
    \/ \E b \in 1..MaxDeliver : FetchAppend(1, b)
    \/ CallAsyncJoin(1)
    \/ FetchFolderSave(1)
    \/ FetchFolderFail(1)
    \/ \E a \in GmailArrivals : GmailDeliver(a)

SpecGmail == InitGmail /\ [][NextGmail]_vars

(***************************************************************************)
(* The web side translating one query.                                     *)
(***************************************************************************)
InitQuery ==
    /\ gmail = FALSE
    /\ InitEmpty({Inbox})
    /\ InitProcs
    /\ query \in SeqsUpTo(Tokens, MaxTokens)
    /\ result = NoResult

SpecQuery == InitQuery /\ [][ParseQuery]_vars

(***************************************************************************)
(* The rows of SRC: a generic account or a Gmail account, one process      *)
(* fetching one folder while messages arrive; Gmail messages arrive as     *)
(* plain mail, with a thread keyword as label or as flag, as a draft or as *)
(* a chat.                                                                 *)
(***************************************************************************)
RowArrivals ==
    {[labels |-> {Inbox}, flags |-> {}],
     [labels |-> {"mlr/thrid/1"}, flags |-> {}],
     [labels |-> {}, flags |-> {"mlr/thrid/2", "\\Seen"}],
     [labels |-> {"\\Draft"}, flags |-> {}],
     [labels |-> {"\\Chats"}, flags |-> {}]}

NextRows ==
    \/ \E tag \in {Inbox, All} : FetchTag(1, tag)
    \/ FetchFolderEnter(1)
    \/ FetchFolderSearch(1)
    \/ \E b \in 1..MaxDeliver : FetchImapScan(1, b)
    \/ \E b \in 1..MaxDeliver : FetchImapMsgs(1, b)
    \/ \E b \in 1..MaxDeliver : FetchGmailScan(1, b)
    \/ \E b \in 1..MaxDeliver : FetchGmailMsgs(1, b)
    \/ \E b \in 1..MaxDeliver : FetchAppend(1, b)
    \/ CallAsyncJoin(1)
    \/ FetchFolderSave(1)
    \/ FetchFolderFail(1)
    \/ \E mid \in Bodies : RemoteDeliver(Inbox, mid)
    \/ \E a \in RowArrivals : GmailDeliver(a)

SpecRows == (InitRebuild \/ InitGmail) /\ [][NextRows]_vars

(***************************************************************************)
(* A Gmail account with two messages, one in the inbox and one in the      *)
(* trash, and nothing fetched yet.                                         *)
(***************************************************************************)
InitTwoMessages ==
    /\ gmail = TRUE
    /\ r_uidvalidity = [t \in GmailTags |-> 1]
    /\ r_msgs = [t \in GmailTags |->
                    IF t \in {All, Inbox} THEN <<1>> ELSE IF t = Trash THEN <<2>> ELSE <<>>]
    /\ r_uidnext = [t \in GmailTags |-> Len(r_msgs[t]) + 1]
    /\ r_highestmodseq = [t \in GmailTags |-> IF t \in {All, Trash} THEN 2 ELSE 1]
    /\ g_labels = <<{Inbox}, {Trash}>>
    /\ g_flags = <<{}, {}>>
    /\ g_modseq = <<2, 2>>
    /\ src = <<>>
    /\ src_flags = <<>>
    /\ src_modseq = <<>>
    /\ l_highestmodseq = 1
    /\ parsed = 0
    /\ data_uidnext = [t \in Tags |-> <<None, None>>]
    /\ data_modseq = [t \in Tags \cup {Local} |-> None]
    /\ InitProcs
    /\ InitNoQuery

(***************************************************************************)
(* One process running a sync() cycle and then sync(only_flags=True)       *)
(* cycles; between the cycles the user changes flags on the local side and *)
(* in Gmail.                                                               *)
(***************************************************************************)
NextSync ==
    \/ parsed = 0 /\ SyncStart(1)
    \/ parsed > 0 /\ SyncOnlyFlags(1)
    \/ FetchFolderEnter(1)
    \/ FetchFolderSearch(1)
    \/ \E b \in 1..MaxDeliver : FetchGmailScan(1, b)
    \/ \E b \in 1..MaxDeliver : FetchGmailMsgs(1, b)
    \/ \E b \in 1..MaxDeliver : FetchAppend(1, b)
    \/ CallAsyncJoin(1)
    \/ FetchFolderSave(1)
    \/ Parse(1)
    \/ SyncGmailIndex(1)
    \/ GetRemoteFlags(1)
    \/ GetLocalFlags(1)
    \/ SyncFlags(1)
    \/ \E uid \in 1..MaxDeliver : SyncPush(1, uid)
    \/ \E uid \in 1..MaxDeliver : SyncPull(1, uid)
    \/ SaveModseq(1)
    \/ SyncGmailFail(1)
    \/ pc[1] = "idle" /\ \E uid \in 1..MaxDeliver, f \in UserFlags : UserFlag(uid, {}, {f})
    \/ pc[1] = "idle" /\ \E uid \in 1..MaxDeliver, f \in UserFlags : UserFlag(uid, {f}, {})
    \/ pc[1] = "idle" /\ \E m \in 1..MaxDeliver, o \in GmailUserOps : GmailUserLabel(m, o)

SpecSync == InitTwoMessages /\ [][NextSync]_vars

(***************************************************************************)
(* One process running sync() cycles that do not fail, while the user      *)
(* stars, answers and trashes messages in Gmail and reads them locally.    *)
(***************************************************************************)
NextPull ==
    \/ parsed = 0 /\ SyncStart(1)
    \/ parsed > 0 /\ SyncOnlyFlags(1)
    \/ FetchFolderEnter(1)
    \/ FetchFolderSearch(1)
    \/ \E b \in 1..MaxDeliver : FetchGmailScan(1, b)
    \/ \E b \in 1..MaxDeliver : FetchGmailMsgs(1, b)
    \/ \E b \in 1..MaxDeliver : FetchAppend(1, b)
    \/ CallAsyncJoin(1)
    \/ FetchFolderSave(1)
    \/ Parse(1)
    \/ SyncGmailIndex(1)
    \/ GetRemoteFlags(1)
    \/ GetLocalFlags(1)
    \/ SyncFlags(1)
    \/ \E uid \in 1..MaxDeliver : SyncPush(1, uid)
    \/ \E uid \in 1..MaxDeliver : SyncPull(1, uid)
    \/ SaveModseq(1)
    \/ pc[1] = "idle" /\ \E uid \in 1..MaxDeliver : UserFlag(uid, {}, {"\\Seen"})
    \/ pc[1] = "idle" /\ \E m \in 1..MaxDeliver, o \in {"star", "answer", "trash"} :
                            GmailUserLabel(m, o)

SpecPull == InitTwoMessages /\ [][NextPull]_vars

(***************************************************************************)
(* A Gmail account whose SRC already holds a row fetched while the account *)
(* was a generic one: the row has no X-GM-MSGID.  One process runs sync()  *)
(* cycles that meet no IMAP error; the user reads messages locally.        *)
(***************************************************************************)
ForeignRow ==
    [hdr |-> ("X-SHA256" :> Sha256(Body(1))) @@ ("X-Remote-Host" :> "imap.example.com")
              @@ ("X-Remote-Login" :> Username),
     raw |-> <<<<"X-SHA256", Sha256(Body(1))>>, <<"X-Remote-Host", "imap.example.com">>,
               <<"X-Remote-Login", Username>>>> \o Body(1)]

InitForeign ==
    /\ gmail = TRUE
    /\ r_uidvalidity = [t \in GmailTags |-> 1]
    /\ r_msgs = [t \in GmailTags |-> IF t \in {All, Inbox} THEN <<1>> ELSE <<>>]
    /\ r_uidnext = [t \in GmailTags |-> Len(r_msgs[t]) + 1]
    /\ r_highestmodseq = [t \in GmailTags |-> IF t = All THEN 2 ELSE 1]
    /\ g_labels = <<{Inbox}>>
    /\ g_flags = <<{}>>
    /\ g_modseq = <<2>>
    /\ src = <<ForeignRow>>
    /\ src_flags = <<{"#inbox"}>>
    /\ src_modseq = <<2>>
    /\ l_highestmodseq = 2
    /\ parsed = 1
    /\ data_uidnext = [t \in Tags |-> <<None, None>>]
    /\ data_modseq = [t \in Tags \cup {Local} |-> None]
    /\ InitProcs
    /\ InitNoQuery

NextForeign ==
    \/ failures < MaxFail /\ SyncStart(1)
    \/ FetchFolderEnter(1)
    \/ FetchFolderSearch(1)
    \/ \E b \in 1..MaxDeliver : FetchGmailScan(1, b)
    \/ \E b \in 1..MaxDeliver : FetchGmailMsgs(1, b)
    \/ \E b \in 1..MaxDeliver : FetchAppend(1, b)
    \/ CallAsyncJoin(1)
    \/ FetchFolderSave(1)
    \/ Parse(1)
    \/ SyncGmailIndex(1)
    \/ GetRemoteFlags(1)
    \/ GetLocalFlags(1)
    \/ SyncFlags(1)
    \/ \E uid \in 1..(MaxDeliver + 1) : SyncPush(1, uid)
    \/ \E uid \in 1..(MaxDeliver + 1) : SyncPushKeyError(1, uid)
    \/ \E uid \in 1..(MaxDeliver + 1) : SyncPull(1, uid)
    \/ SaveModseq(1)
    \/ pc[1] = "idle" /\ \E uid \in 1..(MaxDeliver + 1) : UserFlag(uid, {}, {"\\Seen"})
    \/ pc[1] = "idle" /\ \E m \in 1..MaxDeliver : GmailUserLabel(m, "star")
    \/ \E a \in {[labels |-> {Inbox}, flags |-> {}]} : GmailDeliver(a)

SpecForeign == InitForeign /\ [][NextForeign]_vars

(***************************************************************************)
(* The Gmail account whose SRC holds a row without X-GM-MSGID.  One        *)
(* process runs sync() cycles again and again, none of which meets an IMAP *)
(* error; between the cycles the user reads messages locally and stars     *)
(* them in Gmail, a bounded number of times.  The scheduler keeps starting *)
(* cycles and every started cycle runs until it ends.                      *)
(***************************************************************************)
CycleQuiet ==
    \/ SyncStart(1)
    \/ parsed > 0 /\ SyncOnlyFlags(1)
    \/ FetchFolderEnter(1)
    \/ FetchFolderSearch(1)
    \/ \E b \in 1..MaxDeliver : FetchGmailScan(1, b)
    \/ \E b \in 1..MaxDeliver : FetchGmailMsgs(1, b)
    \/ \E b \in 1..MaxDeliver : FetchAppend(1, b)
    \/ CallAsyncJoin(1)
    \/ FetchFolderSave(1)
    \/ Parse(1)
    \/ SyncGmailIndex(1)
    \/ GetRemoteFlags(1)
    \/ GetLocalFlags(1)
    \/ SyncFlags(1)
    \/ \E uid \in 1..(MaxDeliver + 1) : SyncPush(1, uid)
    \/ \E uid \in 1..(MaxDeliver + 1) : SyncPushKeyError(1, uid)
    \/ \E uid \in 1..(MaxDeliver + 1) : SyncPull(1, uid)
    \/ SaveModseq(1)

NextQuiet ==
    \/ CycleQuiet
    \/ pc[1] = "idle" /\ \E uid \in 1..(MaxDeliver + 1) : UserFlag(uid, {}, {"\\Seen"})
    \/ pc[1] = "idle" /\ \E m \in 1..MaxDeliver : GmailUserLabel(m, "star")

SpecQuiet == InitForeign /\ [][NextQuiet]_vars /\ WF_vars(CycleQuiet)

(***************************************************************************)
(* Two processes running sync(only_flags=True) for the same user, the      *)
(* writes of the cursors taken step by step.                               *)
(***************************************************************************)
NextSettings ==
    \/ \E p \in Procs :
        \/ SyncOnlyFlags(p)
        \/ SyncGmailIndex(p)
        \/ GetRemoteFlags(p)
        \/ GetLocalFlags(p)
        \/ SyncFlags(p)
        \/ DataModseqGet(p)
        \/ DataModseqPut(p)

SpecSettings == InitTwoMessages /\ [][NextSettings]_vars

(***************************************************************************)
(* Two processes running sync() cycles for the same user.                  *)
(***************************************************************************)
NextLock ==
    \E p \in Procs :
        \/ SyncStart(p)
        \/ FetchFolderEnter(p)
        \/ FetchFolderLocked(p)
        \/ FetchFolderSearch(p)
        \/ \E b \in 1..MaxDeliver : FetchGmailScan(p, b)
        \/ \E b \in 1..MaxDeliver : FetchGmailMsgs(p, b)
        \/ \E b \in 1..MaxDeliver : FetchAppend(p, b)
        \/ CallAsyncJoin(p)
        \/ FetchFolderSave(p)
        \/ FetchFolderFail(p)
        \/ Parse(p)
        \/ SyncGmailIndex(p)
        \/ GetRemoteFlags(p)
        \/ GetLocalFlags(p)
        \/ SyncFlags(p)
        \/ SaveModseq(p)

SpecLock == InitTwoMessages /\ [][NextLock]_vars

(***************************************************************************)
(* A Gmail account: process 1 sends messages while process 2 runs sync()   *)
(* cycles; no network error.                                               *)
(***************************************************************************)
NextSend ==
    \/ SendStart(1)
    \/ SmtpSubmit(1)
    \/ SmtpFail(1)
    \/ SyncStart(2)
    \/ \E p \in Procs :
        \/ FetchFolderEnter(p)
        \/ FetchFolderLocked(p)
        \/ FetchFolderSearch(p)
        \/ \E b \in 1..MaxDeliver : FetchGmailScan(p, b)
        \/ \E b \in 1..MaxDeliver : FetchGmailMsgs(p, b)
        \/ \E b \in 1..MaxDeliver : FetchAppend(p, b)
        \/ CallAsyncJoin(p)
        \/ FetchFolderSave(p)
        \/ Parse(p)
        \/ SyncGmailIndex(p)
        \/ GetRemoteFlags(p)
        \/ GetLocalFlags(p)
        \/ SyncFlags(p)
        \/ SaveModseq(p)

SpecSend == InitGmail /\ [][NextSend]_vars

(***************************************************************************)
(* The fetcher.                                                            *)
(***************************************************************************)
\* the rows of SRC whose header `name` has the value v
RowsWith(name, v) ==
    {i \in 1..Len(src) : name \in DOMAIN src[i].hdr /\ src[i].hdr[name] = v}

\* C1: generic IMAP account: whatever fetch_folder runs have happened, SRC
\* holds at most one row per X-SHA256 value.
C1_OneRowPerSha256 ==
    \A i, j \in 1..Len(src) :
        src[i].hdr["X-SHA256"] = src[j].hdr["X-SHA256"] => i = j

\* the saved cursor of a folder is the remote's (UIDVALIDITY, UIDNEXT)
CursorCurrent(tag) == data_uidnext[tag] = <<r_uidvalidity[tag], r_uidnext[tag]>>

IsDraft(m) == "\\Draft" \in flags_by_gmail(All, g_flags[m], g_labels[m])

\* C2: Gmail account: whatever folders were fetched, in any order, SRC
\* holds at most one row per X-GM-MSGID; a message of a folder whose saved
\* cursor is the remote's has exactly one row, unless it is a draft; and the
\* row of a message labelled \Inbox carries #inbox.
C2_OneRowPerMsgid ==
    /\ \A i, j \in 1..Len(src) :
            src[i].hdr["X-GM-MSGID"] = src[j].hdr["X-GM-MSGID"] => i = j
    /\ \A tag \in GmailTags : CursorCurrent(tag) =>
            \A m \in FRange(r_msgs[tag]) :
                ~IsDraft(m) => Cardinality(RowsWith("X-GM-MSGID", m)) = 1
    /\ \A i \in 1..Len(src) :
            Inbox \in g_labels[src[i].hdr["X-GM-MSGID"]] => "#inbox" \in src_flags[i]

\* C2 witness: a message visible in \All and in \Inbox under different
\* UIDs, both folders fetched, one row, with #inbox.
C2_Witness ==
    \E m \in DOMAIN g_labels, u \in DOMAIN r_msgs[All], v \in DOMAIN r_msgs[Inbox] :
        /\ r_msgs[All][u] = m /\ r_msgs[Inbox][v] = m /\ u # v
        /\ CursorCurrent(All) /\ CursorCurrent(Inbox)
        /\ \E i \in 1..Len(src) :
                RowsWith("X-GM-MSGID", m) = {i} /\ "#inbox" \in src_flags[i]

\* all the sub-batches of the fetch_folder call of p have returned
AppendsDone(p) == \A b \in DOMAIN ff[p].batches : ff[p].batches[b].st = "done"

\* C3: a step that changes the saved cursor of a folder is the last step of
\* a fetch_folder call on that folder, taken when every sub-batch of the
\* call has appended and returned; a step in which fetch_folder raises
\* leaves every saved cursor as it was.
C3_CursorAfterAppends ==
    [][/\ \A tag \in Tags : data_uidnext'[tag] # data_uidnext[tag] =>
              \E p \in Procs : /\ pc[p] = "ff_save" /\ ff[p].tag = tag
                               /\ AppendsDone(p)
                               /\ data_uidnext'[tag] = <<ff[p].uidvalidity, ff[p].folder.uidnext>>
       /\ \A p \in Procs : (pc[p] \in {"ff_search", "ff_fetch", "ff_save"} /\ last'[p] = "error")
              => data_uidnext' = data_uidnext]_vars

\* C3 witness: a fetch_folder call that appended rows has saved its cursor.
C3_Witness ==
    /\ last[1] = "ok" /\ pc[1] = "idle"
    /\ Len(src) > 0
    /\ data_uidnext[Inbox] = <<1, 2>>

\* C4: when a fetch_folder call on a folder raised after an append, the
\* next call on that folder that succeeds (with no arrival meanwhile) ends
\* with one row in SRC for each message of the folder and with the saved
\* cursor equal to the remote's (UIDVALIDITY, UIDNEXT).
C4_RefetchAfterCrash ==
    [][\A p \in Procs :
         (/\ pc[p] = "ff_save" /\ pc'[p] # "ff_save" /\ last'[p] # "error"
          /\ crashed[ff[p].tag]
          /\ r_uidnext[ff[p].tag] = ff[p].folder.uidnext)
         => LET tag == ff[p].tag
            IN  /\ \A u \in DOMAIN r_msgs[tag] :
                     Cardinality({i \in 1..Len(src') :
                        src'[i].hdr["X-SHA256"] = Sha256(Body(r_msgs[tag][u]))}) = 1
                /\ data_uidnext'[tag] = <<r_uidvalidity[tag], r_uidnext[tag]>>]_vars

\* C11: a step that changes the saved cursor of a folder and keeps its
\* UIDVALIDITY does not lower its UIDNEXT; a step that lowers the saved
\* UIDNEXT is the save of a fetch_folder call that found the remote
\* UIDVALIDITY different from the saved one; and such a call starts its
\* search from UID 1.
C11_CursorMonotone ==
    [][/\ \A tag \in Tags :
            (data_uidnext'[tag] # data_uidnext[tag]
                /\ data_uidnext'[tag][1] = data_uidnext[tag][1])
            => data_uidnext'[tag][2] >= data_uidnext[tag][2]
       /\ \A tag \in Tags :
            data_uidnext'[tag][2] < data_uidnext[tag][2]
            => \E p \in Procs : /\ pc[p] = "ff_save" /\ ff[p].tag = tag
                                 /\ ff[p].folder.uidval # data_uidnext[tag][1]
       /\ \A p \in Procs :
            (pc[p] = "fetch" /\ pc'[p] = "ff_search"
                /\ r_uidvalidity[Head(todo[p])] # data_uidnext[Head(todo[p])][1])
            => ff'[p].uidnext = 1]_vars

\* C11 witness: after a rebuild of the folder the saved UIDNEXT is lower
\* than the number of rows fetched from it.
C11_Witness ==
    /\ pc[1] = "idle" /\ last[1] = "ok"
    /\ data_uidnext[Inbox][1] = 2
    /\ data_uidnext[Inbox][2] <= Len(src)

\* C12: a fetch_folder call that finds the saved UIDVALIDITY different from
\* the remote one (or no saved cursor) searches every UID of the folder;
\* when it succeeds, each message it appended has one row in SRC and the
\* saved cursor is the (UIDVALIDITY, UIDNEXT) the remote had.
C12_ResetRefetch ==
    [][\A p \in Procs :
         LET tag == ff[p].tag
             reset == data_uidnext[tag][1] # ff[p].folder.uidval
         IN  /\ (pc[p] = "ff_search" /\ pc'[p] \in {"ff_fetch", "ff_save"} /\ reset)
                    => ff'[p].uids = DOMAIN r_msgs[tag]
             /\ (pc[p] = "ff_save" /\ pc'[p] # "ff_save" /\ last'[p] # "error" /\ reset)
                    => /\ \A b \in DOMAIN ff[p].batches :
                            \A k \in DOMAIN ff[p].batches[b].msgs :
                                Cardinality({i \in 1..Len(src') : src'[i].hdr["X-SHA256"]
                                    = ff[p].batches[b].msgs[k].hdr["X-SHA256"]}) = 1
                       /\ data_uidnext'[tag] = <<ff[p].folder.uidval, ff[p].folder.uidnext>>]_vars

\* C13: a fetch_folder call on a folder whose saved cursor is the remote's
\* (UIDVALIDITY, UIDNEXT) finds no UID to fetch, although the search
\* returns the highest UID of the folder, and its save leaves the cursor
\* and SRC as they were.
C13_RefetchIdempotent ==
    [][\A p \in Procs :
         LET tag == ff[p].tag
             current == data_uidnext[tag] = <<r_uidvalidity[tag], r_uidnext[tag]>>
         IN  /\ (pc[p] = "ff_search" /\ pc'[p] \in {"ff_fetch", "ff_save"} /\ current)
                    => ff'[p].uids = {} /\ pc'[p] = "ff_save"
             /\ (pc[p] = "ff_save" /\ pc'[p] # "ff_save" /\ last'[p] # "error"
                    /\ current /\ ff[p].uids = {})
                    => UNCHANGED <<src, src_flags, data_uidnext>>]_vars

\* C13 witness: the second fetch of a folder that holds messages has
\* searched and found nothing new.
C13_Witness ==
    /\ pc[1] = "ff_save" /\ ff[1].uids = {} /\ ff[1].tag = Inbox
    /\ DOMAIN r_msgs[Inbox] # {}
    /\ data_uidnext[Inbox] = <<r_uidvalidity[Inbox], r_uidnext[Inbox]>>
    /\ Len(src) > 0

(***************************************************************************)
(* The lock.                                                               *)
(***************************************************************************)
InFetchFolder(p) == pc[p] \in {"ff_search", "ff_fetch", "ff_save"}

\* C5: no two processes are inside fetch_folder at once; the lock is held
\* by the process inside and free when nobody is inside (released on return
\* and on exception); a fetch_folder that finds the lock held raises
\* lock.Error and that step changes neither SRC nor any cursor.
C5_FetchFolderExclusive ==
    /\ [](/\ \A p, q \in Procs : InFetchFolder(p) /\ InFetchFolder(q) => p = q
          /\ \A p \in Procs : InFetchFolder(p) => lock = p
          /\ (\A p \in Procs : ~InFetchFolder(p)) => lock = None)
    /\ [][\A p \in Procs :
            (pc[p] = "fetch" /\ pc'[p] # "fetch" /\ lock # None)
            => /\ ~InFetchFolder(p)'
               /\ UNCHANGED <<src, src_flags, src_modseq, data_uidnext, data_modseq>>]_vars

\* C5 witness: process 1 is inside fetch_folder and process 2 has just got
\* lock.Error from its own fetch_folder.
C5_Witness ==
    /\ InFetchFolder(1) /\ lock = 1
    /\ contended[2] /\ pc[2] = "sync_account"

\* C6: sync_gmail of one process never overlaps with sync_gmail or with
\* fetch_folder of another process of the same account.
C6_SyncGmailUnderLock ==
    \A p, q \in Procs :
        p # q => ~(InSyncGmail(p) /\ (InSyncGmail(q) \/ InFetchFolder(q)))

\* C7: in a sync() cycle that caught lock.Error, no later step of the
\* cycle changes SRC, a UIDNEXT or MODSEQ cursor, or a flag or label on
\* the local or the remote side.
C7_ContentionNoOp ==
    [][\A p \in Procs :
         (contended[p] /\ contended'[p] /\ (pc'[p] # pc[p] \/ sg'[p] # sg[p]))
         => UNCHANGED <<src, src_flags, data_uidnext, data_modseq, g_labels, g_flags>>]_vars

(***************************************************************************)
(* The flag reconciler.                                                    *)
(***************************************************************************)
\* the synced state of a Gmail message
RemoteSynced(m) ==
    [labels |-> g_labels[m] \cap SyncedLabels, seen |-> "\\Seen" \in g_flags[m]]

\* the synced state a local flag set asks for
LocalSynced(flags) ==
    [labels |-> {label_by_flag(f) : f \in flags \cap LabelFlags}, seen |-> "\\Seen" \in flags]

\* the uids changed on both sides in the cycle of p
BothChanges(p) == (DOMAIN sg[p].flags_by_uid_local) \cap (DOMAIN sg[p].flags_by_uid_remote)

FlagsDone(p) ==
    /\ pc[p] = "sg_save"
    /\ sg[p].todo = <<>> /\ sg[p].to_remote = {} /\ sg[p].remote_changes = {}

\* C9: a step that changes a saved MODSEQ cursor is taken by a sync_gmail
\* run whose push and pull are over for every folder; when a run raises
\* before that, every cursor it read still has the value it read.
C9_ModseqAfterFlags ==
    [][/\ data_modseq' # data_modseq => \E p \in Procs : FlagsDone(p)
       /\ \A p \in Procs :
            (InSyncGmail(p) /\ pc[p] # "sg_save" /\ last'[p] = "error")
            => \A key \in DOMAIN sg[p].saved : data_modseq'[key] = sg[p].saved[key]]_vars

\* C9 witness: a run that pushed or pulled something has saved its cursors.
C9_Witness ==
    /\ pc[1] = "idle" /\ last[1] = "ok"
    /\ userops > 0
    /\ \A key \in DOMAIN data_modseq :
            key \in {All, Junk, Trash, Local} => data_modseq[key] # None
    /\ data_modseq[All] = r_highestmodseq[All] /\ data_modseq[All] > 2

\* the keys whose cursor the cycle of p changes
ChangedKeys(p) ==
    {k \in (DOMAIN sg[p].modseqs) \cap (DOMAIN sg[p].saved) : sg[p].modseqs[k] # sg[p].saved[k]}

\* C10: while a sync_gmail cycle persists its cursors, and after it raised,
\* the saved cursors the cycle changes are all the old ones or all the new
\* ones.
C10_CursorsAtomic ==
    \A p \in Procs :
        (pc[p] = "sg_save" \/ (pc[p] = "idle" /\ last[p] = "error")) =>
            \/ \A k \in ChangedKeys(p) : data_modseq[k] = sg[p].saved[k]
            \/ \A k \in ChangedKeys(p) : data_modseq[k] = sg[p].modseqs[k]

\* C14: a pull step leaves every local flag outside {#trash, #spam,
\* #inbox, \Flagged, \Seen} of the message as it was, and after it each of
\* these five flags is on the local message exactly when it is in the
\* mapped flags of the remote message.
C14_PullOnlySyncedFlags ==
    [][\A p \in Procs : \A uid \in 1..Len(src) :
         (pc[p] = "sg_pull" /\ uid \in sg[p].remote_changes
            /\ sg'[p].remote_changes = sg[p].remote_changes \ {uid})
         => /\ src_flags'[uid] \ flags_synced = src_flags[uid] \ flags_synced
            /\ src_flags'[uid] \cap flags_synced
                    = sg[p].flags_by_uid_remote[uid] \cap flags_synced]_vars

\* C15: a push step issues the relocating STORE +X-GM-LABELS \Inbox only
\* for a message that lives in \Trash or \Junk while the label of that
\* folder is among the labels the push removes.
C15_RelocateOnlyWhenLeaving ==
    [][\A p \in Procs : \A uid \in 1..Len(src) :
         (pc[p] = "sg_push" /\ uid \in sg[p].to_remote
            /\ sg'[p].to_remote = sg[p].to_remote \ {uid})
         => LET msgid == CHOOSE k \in DOMAIN sg[p].uids_by_msgid :
                            sg[p].uids_by_msgid[k] = uid
                flags == sg[p].flags_by_uid_local[uid]
            IN  Relocates(CurRemote, msgid, flags)
                => /\ find_uid_remote(CurRemote, msgid).tag \in folders
                   /\ find_uid_remote(CurRemote, msgid).tag
                        \in SyncedLabels \ PushLabels(flags)]_vars

\* the Gmail message of the row uid, by the index of the cycle of p
MsgidOf(p, uid) ==
    CHOOSE k \in DOMAIN sg[p].uids_by_msgid : sg[p].uids_by_msgid[k] = uid

Seeding(p) == \A k \in DOMAIN sg[p].saved : sg[p].saved[k] = None

\* C17: a folder with no saved MODSEQ cursor adds nothing to the remote
\* changes of the run; with no saved local cursor the local changes are
\* empty and nothing is pushed; a run that found no saved cursor at all
\* never pushes or pulls, and when it ends \All, \Junk, \Trash and \Local
\* have a saved cursor.
C17_Seeding ==
    [][\A p \in Procs :
         /\ (pc[p] = "sg_remote" /\ pc'[p] \in {"sg_remote", "sg_local"}
                /\ sg'[p].todo # sg[p].todo /\ data_modseq[Head(sg[p].todo)] = None)
             => sg'[p].flags_by_uid_remote = sg[p].flags_by_uid_remote
         /\ (pc[p] = "sg_local" /\ pc'[p] = "sg_flags" /\ data_modseq[Local] = None)
             => sg'[p].flags_by_uid_local = <<>>
         /\ (pc[p] = "sg_flags" /\ pc'[p] # "sg_flags" /\ last'[p] # "error"
                /\ sg[p].saved[Local] = None)
             => sg'[p].to_remote = {}
         /\ (pc[p] \in {"sg_flags", "sg_push", "sg_pull"} /\ Seeding(p))
             => /\ pc[p] = "sg_flags"
                /\ UNCHANGED <<src_flags, g_labels, g_flags>>
         /\ (pc[p] = "sg_save" /\ pc'[p] = "idle" /\ last'[p] = "ok")
             => \A k \in {All, Junk, Trash, Local} : data_modseq'[k] # None]_vars

\* C17 witness: the first run, with no saved cursor, has ended.
C17_Witness ==
    /\ pc[1] = "idle" /\ last[1] = "ok"
    /\ userops = 0 /\ failures = 0
    /\ \A k \in {All, Junk, Trash, Local} : data_modseq[k] # None
    /\ src_flags = <<{"#inbox"}, {"#trash"}>>
    /\ g_labels = <<{Inbox}, {Trash}>>

(***************************************************************************)
(* Errors, connections, send.                                              *)
(***************************************************************************)
\* C18: no sync() cycle ends by raising to its caller.
C18_SyncNeverRaises ==
    \A p \in Procs : op[p] = "sync" => last[p] # "error"

\* C19: no remote connection of fetch_folder is left without logout: a
\* connection is open only between the select and the logout of a call in
\* progress, and no call that raised has left one open.
C19_ConnectionsLoggedOut ==
    \A p \in Procs :
        /\ conn[p].open => pc[p] = "ff_search"
        /\ ~conn[p].leaked

\* C20: once the SMTP submission of send() has succeeded, send() ends only
\* after local.parse() has run, whatever a sync() cycle of another process
\* of the same user does meanwhile.
C20_SendFetchesAndParses ==
    [][\A p \in Procs :
         (op[p] = "send" /\ pc[p] \notin {"idle", "smtp"} /\ pc'[p] = "idle")
         => pc[p] = "parse"]_vars

(***************************************************************************)
(* The rows of SRC.                                                        *)
(***************************************************************************)
\* C21: no step of the fetcher or of sync_gmail removes a row of SRC or
\* changes the headers or the bytes of a row that is there: SRC only grows
\* at its end.
C21_SrcOnlyGrows ==
    [][/\ Len(src') >= Len(src)
       /\ \A i \in 1..Len(src) : src'[i] = src[i]]_vars

\* C21 witness: both messages have their row and sync_gmail has pulled a
\* star of the Gmail side onto one of them.
C21_Witness ==
    /\ Len(src) = 2
    /\ pc[1] = "idle" /\ last[1] = "ok"
    /\ \E i \in 1..Len(src) : "\\Flagged" \in src_flags[i]

\* the names of the headers the fetcher prepends
ProvenanceNames ==
    {"X-SHA256", "X-Remote-Host", "X-Remote-Login", "X-GM-UID", "X-GM-MSGID",
     "X-GM-THRID", "X-GM-Login", "X-Thread-ID"}

\* the bytes of a row without the header lines prepended to it
RECURSIVE StripProvenance(_)
StripProvenance(raw) ==
    IF raw # <<>> /\ Head(raw)[1] \in ProvenanceNames THEN StripProvenance(Tail(raw))
    ELSE raw

\* the bytes of the messages the remote holds
RemoteBodies ==
    IF gmail THEN {GmailRaw(m) : m \in DOMAIN g_labels}
    ELSE {Body(r_msgs[t][u]) : <<t, u>> \in
            UNION {{<<t, u>> : u \in DOMAIN r_msgs[t]} : t \in DOMAIN r_msgs}}

\* C22: every row of SRC is the header block followed by the bytes of a
\* remote message: without the prepended lines it is those bytes, and its
\* X-SHA256 is the hash of those bytes alone.
C22_ProvenanceThenBytes ==
    \A i \in 1..Len(src) :
        LET orig == StripProvenance(src[i].raw)
        IN  /\ orig \in RemoteBodies
            /\ orig # <<>>
            /\ src[i].raw = SubSeq(src[i].raw, 1, Len(src[i].raw) - Len(orig)) \o orig
            /\ src[i].hdr["X-SHA256"] = Sha256(orig)

\* C22 witness: a generic account with the rows of two different messages.
C22_Witness ==
    /\ ~gmail
    /\ \E i, j \in 1..Len(src) :
            StripProvenance(src[i].raw) # StripProvenance(src[j].raw)

\* the thread keywords a Gmail message carries on the remote, as flag or label
RemoteThrids(m) == (g_flags[m] \cup g_labels[m]) \cap ThridKeywords

\* C23: the row of a Gmail message that carries a thread keyword on the
\* remote has the keyword among its flags and the header X-Thread-ID made of
\* it.
C23_ThreadKeywordKept ==
    gmail =>
        \A i \in 1..Len(src) :
            \A k \in RemoteThrids(src[i].hdr["X-GM-MSGID"]) :
                /\ k \in src_flags[i]
                /\ "X-Thread-ID" \in DOMAIN src[i].hdr
                /\ src[i].hdr["X-Thread-ID"] = <<k, "@mailur.link">>

\* the mapped flags of a Gmail message fetched from a folder hold \Draft
DraftIn(tag, m) == "\\Draft" \in flags_by_gmail(tag, g_flags[m], g_labels[m])

\* the messages of the rows a batch is about to append
BatchMsgids(msgs) == {msgs[k].hdr["X-GM-MSGID"] : k \in 1..Len(msgs)}

\* C24: with SKIP_DRAFTS, a step of fetch_gmail appends no row of a
\* message whose mapped flags hold \Draft; and when fetch_gmail builds the
\* rows of a batch, a message of the batch gets no row only if its mapped
\* flags hold \Draft, its X-GM-MSGID was in SRC, or it came without a body.
C24_SkipsOnlyDrafts ==
    [][gmail =>
        /\ \A i \in (Len(src) + 1)..Len(src') :
                ~DraftIn(All, src'[i].hdr["X-GM-MSGID"])
        /\ \A p \in Procs : \A b \in DOMAIN ff[p].batches :
                (/\ pc'[p] = "ff_fetch"
                 /\ ff[p].batches[b].st = "scanned"
                 /\ ff'[p].batches[b].st # "scanned")
                => \A k \in 1..Len(ff[p].batches[b].uids) :
                      LET u == ff[p].batches[b].uids[k]
                          tag == ff[p].tag
                      IN  u \in DOMAIN r_msgs[tag] =>
                            LET m == r_msgs[tag][u]
                            IN  \/ m \in BatchMsgids(ff'[p].batches[b].msgs)
                                \/ DraftIn(tag, m)
                                \/ m \in ff[p].batches[b].exists
                                \/ GmailRaw(m) = <<>>]_vars

\* C24 witness: \All was fetched, it holds a draft without a row and a
\* message with a row.
C24_Witness ==
    /\ gmail
    /\ CursorCurrent(All)
    /\ \E m \in FRange(r_msgs[All]) : DraftIn(All, m) /\ RowsWith("X-GM-MSGID", m) = {}
    /\ \E m \in FRange(r_msgs[All]) : RowsWith("X-GM-MSGID", m) # {}

\* the message under a UID of a folder has a row in SRC
Represented(tag, u) ==
    IF gmail THEN RowsWith("X-GM-MSGID", r_msgs[tag][u]) # {}
    ELSE RowsWith("X-SHA256", Sha256(Body(r_msgs[tag][u]))) # {}

\* the UIDs of a folder below its saved UIDNEXT, when the saved UIDVALIDITY
\* is the folder's
BelowCursor(tag) ==
    IF data_uidnext[tag][1] = r_uidvalidity[tag]
    THEN {u \in DOMAIN r_msgs[tag] : u < data_uidnext[tag][2]}
    ELSE {}

\* C28, as stated: every message of a folder below the saved UIDNEXT has
\* a row in SRC, except the Gmail messages skipped as drafts.
C28_BelowCursorFetched ==
    \A tag \in DOMAIN r_msgs : \A u \in BelowCursor(tag) :
        \/ Represented(tag, u)
        \/ gmail /\ DraftIn(tag, r_msgs[tag][u])

\* C28, amended: every message of a folder below the saved UIDNEXT has a
\* row in SRC, except the Gmail messages skipped as drafts and the Gmail
\* messages that come without a body.
C28_BelowCursorFetchedOrNoBody ==
    \A tag \in DOMAIN r_msgs : \A u \in BelowCursor(tag) :
        \/ Represented(tag, u)
        \/ gmail /\ DraftIn(tag, r_msgs[tag][u])
        \/ gmail /\ GmailRaw(r_msgs[tag][u]) = <<>>

\* C28 witness: a fetch_folder call has succeeded whose saved UIDNEXT is
\* below the UID of a message that arrived during the call and has its row.
C28_Witness ==
    /\ pc[1] = "idle" /\ last[1] = "ok"
    /\ \E tag \in DOMAIN r_msgs :
        /\ data_uidnext[tag][1] = r_uidvalidity[tag]
        /\ \E u \in DOMAIN r_msgs[tag] :
              u >= data_uidnext[tag][2] /\ Represented(tag, u)
        /\ \E u \in DOMAIN r_msgs[tag] : u < data_uidnext[tag][2]

(***************************************************************************)
(* The query translator.                                                   *)
(***************************************************************************)
\* the clause the translation of a recognised token must give
ExpectedClause(t) ==
    CASE t.k = "tag" -> <<"keyword", t.v>>
      [] t.k = "from" -> <<"from", <<"json", "alice">>>>
      [] t.k = "subj" -> <<"header subject", <<"json", "q1 report">>>>
      [] t.k = "unseen" -> <<"unseen">>
      [] t.k = "date" -> Replace(t)

\* C25: for every query parse_query gives an expression; it holds
\* 'unkeyword #link'; it holds 'unkeyword #trash' exactly when #trash is not
\* among the collected tags, and 'unkeyword #spam' exactly when neither
\* #spam nor #trash is; and every recognised token has its clause in it.
C25_ImplicitClauses ==
    result # NoResult =>
        /\ result.status = "ok"
        /\ InSeq(<<"unkeyword", "#link">>, result.parts)
        /\ InSeq(<<"unkeyword", "#trash">>, result.parts) <=> ~InSeq("#trash", result.tags)
        /\ InSeq(<<"unkeyword", "#spam">>, result.parts)
              <=> (~InSeq("#spam", result.tags) /\ ~InSeq("#trash", result.tags))
        /\ \A i \in 1..Len(query) :
              query[i].k # "word" => InSeq(ExpectedClause(query[i]), result.parts)
        /\ \A i \in 1..Len(query) :
              query[i].k = "tag" => InSeq(query[i].v, result.tags)

\* the first day of the month after month m of year y
FollowingMonth(y, m) == IF m = 12 THEN <<1, 1, y + 1>> ELSE <<1, m + 1, y>>

\* C26: date:Y-M gives 'since <first day of M> before <first day of the
\* following month>', date:Y gives 'since 01-Jan-Y before 01-Jan-(Y+1)',
\* date:Y-M-D gives 'on <that day>', and none of them makes parse_query fail.
C26_DateRanges ==
    (result # NoResult /\ Len(query) = 1 /\ query[1].k = "date") =>
        LET val == query[1].v
            clause == IF Len(val) = 1
                      THEN <<"since", <<1, 1, val[1]>>, "before", <<1, 1, val[1] + 1>>>>
                      ELSE IF Len(val) = 2
                      THEN <<"since", <<1, val[2], val[1]>>,
                             "before", FollowingMonth(val[1], val[2])>>
                      ELSE <<"on", <<val[3], val[2], val[1]>>>>
        IN  (Len(val) < 3 \/ val[3] <= DaysIn(val[1], val[2]))
            => /\ result.status = "ok"
               /\ result.parts[1] = clause

(***************************************************************************)
(* The cycle of sync_gmail.                                                *)
(***************************************************************************)
\* C27: when no IMAP operation fails, a sync_gmail run ends only by the
\* write of its last cursor, whatever the local changes are: a changed row
\* without X-GM-MSGID does not end the run.
C27_CycleReachesPersist ==
    [][\A p \in Procs :
         (InSyncGmail(p) /\ pc'[p] = "idle")
         => (pc[p] = "sg_save" /\ last'[p] = "ok")]_vars

\* C30: the saved value of a cursor changes only by the write of that
\* cursor: the write of one key of remote/modseq leaves every other key as
\* it was, whatever other writers of the same user do.
C30_OtherKeysKept ==
    [][\A k \in DOMAIN data_modseq :
         data_modseq'[k] # data_modseq[k]
         => \E p \in Procs : /\ pc[p] = "sg_put"
                              /\ pc'[p] # "sg_put"
                              /\ Head(sg[p].save) = k]_vars

\* C29: when the user has stopped changing flags, the cycles of
\* sync_gmail reach a point after which none of them issues a STORE to the
\* remote or a flag change to the local side.
C29_Quiescence ==
    <>[][~\E p \in Procs, uid \in 1..(MaxDeliver + 1) :
             SyncPush(p, uid) \/ SyncPull(p, uid)]_vars

====
